---------------------------- MODULE Spec2Model ----------------------------
(***************************************************************************)
(* Ghomap: a key-value store that keeps every value as one JSON file of a  *)
(* directory, with an optional in-memory cache (src/src/Ghomap.ts).        *)
(*                                                                         *)
(* The model is an interpreter of the async methods of the class.  Every   *)
(* invocation of a public method is an operation with a stack of frames,   *)
(* one frame per method of the source that is running; a frame is at a     *)
(* program point (pc) of its method.  An operation runs synchronously up   *)
(* to its next await.  An await on a file-system promise suspends the      *)
(* operation until the file system has performed the request (the Fs*      *)
(* actions) and the completion is delivered (Resume); an await on a        *)
(* promise that is already settled suspends it for a microtask (Tick).     *)
(* Node drains the microtask queue before it delivers a file-system        *)
(* completion, so Resume waits until no operation is suspended for a       *)
(* microtask, and after a completion the operation runs through its        *)
(* microtask awaits without interleaving.                                  *)
(***************************************************************************)
EXTENDS Integers, Sequences, FiniteSets, TLC

(***************************************************************************)
(* Bounds of the model.                                                    *)
(***************************************************************************)
MaxOps == 2      \* operations in flight at the same time
MaxCalls == 3    \* invocations of public methods in one behaviour
MaxNum == 1      \* numbers 1..MaxNum are the values stored

(***************************************************************************)
(* Keys are strings, modelled as sequences of characters.                  *)
(***************************************************************************)
Letters ==
  {"a", "b", "c", "d", "e", "f", "g", "h", "i", "j", "k", "l", "m",
   "n", "o", "p", "q", "r", "s", "t", "u", "v", "w", "x", "y", "z"}

KeyA == <<"k", "a">>
KeyB == <<"k", "b">>
Keys == {KeyA, KeyB}
NoKey == <<>>

\* readdir order of the entries of the directory (alphabetical)
KeyOrder == <<KeyA, KeyB>>

\* /^[a-z][a-z-]*[a-z]$/.test(key)
validateKey(key) ==
  /\ Len(key) >= 2
  /\ key[1] \in Letters
  /\ key[Len(key)] \in Letters
  /\ \A i \in 1..Len(key) : key[i] \in Letters \cup {"-"}

(***************************************************************************)
(* Values (the type T of the store) and results of methods.                *)
(***************************************************************************)
Val(t, n, a) == [t |-> t, n |-> n, a |-> a]
Num(n) == Val("num", n, <<>>)
Arr(a) == Val("arr", 0, a)
Bool(b) == Val("bool", IF b THEN 1 ELSE 0, <<>>)
Null == Val("null", 0, <<>>)
Undefined == Val("undefined", 0, <<>>)
Void == Val("void", 0, <<>>)
\* a value that JSON.stringify throws on (a circular structure, a BigInt)
Circular == Val("circular", 0, <<>>)

\* the values passed to set and ensure
Values == {Num(n) : n \in 1..MaxNum} \cup {Null, Circular}

\* a ?? b
Nullish(a, b) == IF a \in {Null, Undefined} THEN b ELSE a

(***************************************************************************)
(* JSON text is a sequence of tokens.                                      *)
(***************************************************************************)
RECURSIVE Joined(_)
Joined(a) ==
  IF Len(a) = 0 THEN <<>>
  ELSE IF Len(a) = 1 THEN <<ToString(a[1])>>
  ELSE <<ToString(a[1]), ",">> \o Joined(Tail(a))

\* utils.stringify throws "provided data must be json-able"
Serializable(data) == data.t # "circular"

\* utils.stringify: JSON.stringify(data)
stringify(data) ==
  CASE data.t = "num" -> <<ToString(data.n)>>
    [] data.t = "null" -> <<"null">>
    [] data.t = "bool" -> <<IF data.n = 1 THEN "true" ELSE "false">>
    [] data.t = "arr" -> <<"[">> \o Joined(data.a) \o <<"]">>

IsNumTok(tok) == \E n \in 0..9 : ToString(n) = tok
NumOf(tok) == CHOOSE n \in 0..9 : ToString(n) = tok

\* the elements between the brackets: numbers separated by commas
ElemsOk(toks) ==
  /\ Len(toks) % 2 = 1
  /\ \A i \in 1..Len(toks) :
       IF i % 2 = 1 THEN IsNumTok(toks[i]) ELSE toks[i] = ","

Elems(toks) == [i \in 1..((Len(toks) + 1) \div 2) |-> NumOf(toks[2 * i - 1])]

\* utils.parse: JSON.parse(raw); ok = FALSE when it throws a SyntaxError
parse(raw) ==
  IF Len(raw) = 1 /\ raw[1] = "null" THEN [ok |-> TRUE, v |-> Null]
  ELSE IF Len(raw) = 1 /\ raw[1] = "true" THEN [ok |-> TRUE, v |-> Bool(TRUE)]
  ELSE IF Len(raw) = 1 /\ raw[1] = "false" THEN [ok |-> TRUE, v |-> Bool(FALSE)]
  ELSE IF Len(raw) = 1 /\ IsNumTok(raw[1]) THEN [ok |-> TRUE, v |-> Num(NumOf(raw[1]))]
  ELSE IF Len(raw) = 2 /\ raw[1] = "[" /\ raw[2] = "]" THEN [ok |-> TRUE, v |-> Arr(<<>>)]
  ELSE IF /\ Len(raw) >= 3
          /\ raw[1] = "["
          /\ raw[Len(raw)] = "]"
          /\ ElemsOk(SubSeq(raw, 2, Len(raw) - 1))
       THEN [ok |-> TRUE, v |-> Arr(Elems(SubSeq(raw, 2, Len(raw) - 1)))]
  ELSE [ok |-> FALSE, v |-> Undefined]

(***************************************************************************)
(* Map<Key, T>: entries in insertion order.                                *)
(***************************************************************************)
MapHas(map, key) == \E i \in 1..Len(map) : map[i].key = key

MapGet(map, key) ==
  IF MapHas(map, key)
  THEN map[CHOOSE i \in 1..Len(map) : map[i].key = key].val
  ELSE Undefined

MapSet(map, key, val) ==
  IF MapHas(map, key)
  THEN [i \in 1..Len(map) |->
          IF map[i].key = key THEN [key |-> key, val |-> val] ELSE map[i]]
  ELSE Append(map, [key |-> key, val |-> val])

MapDelete(map, key) == SelectSeq(map, LAMBDA e : e.key # key)

MapKeys(map) == [i \in 1..Len(map) |-> map[i].key]

(***************************************************************************)
(* The directory of the store: a file per key, or none.                    *)
(***************************************************************************)
NoFile == <<"<no file>">>

\* fs.existsSync(this.filepath(key))
existsSync(fls, key) == key \in DOMAIN fls /\ fls[key] # NoFile

\* the *.json entries of the directory, in readdir order
DirKeys(fls) == SelectSeq(KeyOrder, LAMBDA k : fls[k] # NoFile)

\* a name in the directory that is not the file of a key: it lacks ".json"
Stray == <<"t", "m", "p">>

\* the names of the directory: the file of key k is named k.json
Ext == ".json"
Filename(k) == Append(k, Ext)
Names == Keys \cup {Stray}

\* fsp.readdir(this.path): the names of the directory, in alphabetical order
DirNames(fls) ==
  [i \in 1..Len(DirKeys(fls)) |-> Filename(DirKeys(fls)[i])]
    \o (IF fls[Stray] # NoFile THEN <<Stray>> ELSE <<>>)

\* filename.endsWith(".json") and path.basename(filename, ".json")
endsWith(filename) == Len(filename) > 0 /\ filename[Len(filename)] = Ext
basename(filename) == SubSeq(filename, 1, Len(filename) - 1)

\* the keys named by the *.json names of a listing
JsonKeys(filenames) ==
  LET json == SelectSeq(filenames, endsWith)
  IN [i \in 1..Len(json) |-> basename(json[i])]


(***************************************************************************)
(* State.                                                                  *)
(***************************************************************************)
VARIABLES
  useCache,         \* Ghomap.useCache
  cacheOnly,        \* Ghomap.cacheOnly
  fetchAllOnStart,  \* Ghomap.fetchAllOnStart
  ready,            \* Ghomap.ready
  cache,            \* Ghomap.cache
  waiting,          \* Ghomap.waiting
  baseDir,          \* the directory Ghomap.path exists
  dir,              \* the directory of the store (this.path) exists
  files,            \* the content of this.filepath(key), or NoFile
  ops,              \* the invocations in flight
  last,             \* the invocation that settled last, with its result
  calls,            \* number of invocations made
  prev,             \* the invocation made last, when it is a set on a ready store
  probe,            \* the key and the method whose file access is examined
  latest,           \* history: the value of the latest set invoked for a key
  gate              \* history: "new", "open" (an open completed), "destroyed"

vars ==
  <<useCache, cacheOnly, fetchAllOnStart, ready, cache, waiting, baseDir, dir,
    files, ops, last, calls, prev, probe, latest, gate>>

\* get cacheUsed()
cacheUsed == useCache \/ cacheOnly

Slots == 1..MaxOps

(***************************************************************************)
(* Frames, requests to the file system, and operations.                    *)
(***************************************************************************)
\* what a method returns to its caller: a value, a Map or a list of keys
Payload(v, ents, keys) == [v |-> v, ents |-> ents, keys |-> keys, vals |-> <<>>]
NoPayload == Payload(Undefined, <<>>, <<>>)
OfVal(v) == Payload(v, <<>>, <<>>)
OfList(vals) == [NoPayload EXCEPT !.vals = vals]

Frame(fn, key, val) ==
  [fn |-> fn, pc |-> "start", key |-> key, val |-> val, keys |-> <<>>,
   ents |-> <<>>, acc |-> <<>>, i |-> 0, written |-> <<>>, visitor |-> "",
   ret |-> NoPayload]

Request(kind, key, text) ==
  [kind |-> kind, key |-> key, text |-> text, stage |-> "req", names |-> <<>>,
   err |-> ""]
NoIO == [Request("none", NoKey, <<>>) EXCEPT !.stage = "none"]

\* the cache entry and the file of a key, and what has and get answer, when
\* the operation was invoked
Pre(has, got, entry, file) == [has |-> has, got |-> got, entry |-> entry, file |-> file]
NoPre == Pre(FALSE, Undefined, Undefined, NoFile)

Idle ==
  [name |-> "idle", key |-> NoKey, val |-> Undefined, rnd |-> 0,
   alone |-> FALSE, pre |-> NoPre, stack |-> <<>>, wait |-> "none", io |-> NoIO]

NoPrev == [name |-> "none", key |-> NoKey, val |-> Undefined, alone |-> FALSE]

NoLast ==
  [name |-> "none", key |-> NoKey, val |-> Undefined, alone |-> FALSE,
   pre |-> NoPre, out |-> NoPayload, err |-> "", errOp |-> ""]

(***************************************************************************)
(* The machine: the part of the state that the synchronous code of one     *)
(* operation reads and writes while it runs.                               *)
(***************************************************************************)
Machine(op, mode) ==
  [ready |-> ready, cache |-> cache, waiting |-> waiting, stack |-> op.stack,
   io |-> op.io, rnd |-> op.rnd, wait |-> "run", mode |-> mode,
   out |-> NoPayload, err |-> "", errOp |-> ""]

Top(m) == m.stack[Len(m.stack)]
SetTop(m, f) == [m EXCEPT !.stack[Len(m.stack)] = f]
Goto(m, pc) == SetTop(m, [Top(m) EXCEPT !.pc = pc])

\* an exception: no method of the class catches, the invocation rejects
Throw(m, err, op) ==
  [m EXCEPT !.wait = "done", !.stack = <<>>, !.err = err, !.errOp = op, !.io = NoIO]

\* return from the top frame; the caller continues after its await, which is
\* a microtask later when the callee settled without leaving the event loop
Return(m, payload) ==
  IF Len(m.stack) = 1
  THEN [m EXCEPT !.wait = "done", !.stack = <<>>, !.out = payload, !.io = NoIO]
  ELSE LET n == Len(m.stack) - 1
           caller == [m.stack[n] EXCEPT !.ret = payload]
       IN [m EXCEPT !.stack = Append(SubSeq(m.stack, 1, n - 1), caller),
                    !.io = NoIO,
                    !.wait = IF m.mode = "sync" /\ caller.fn # "deleteAll"
                             THEN "micro" ELSE "run"]

\* await of a promise that is already resolved
Yield(m, pc) ==
  [Goto(m, pc) EXCEPT !.wait = IF m.mode = "sync" THEN "micro" ELSE "run"]

\* await of a request to the file system
StartIO(m, req, pc) == [Goto(m, pc) EXCEPT !.io = req, !.wait = "io"]

\* a wrapper that calls the method whatever the flag says
checkReadyOff(m, fn, frame) == [m EXCEPT !.stack = Append(m.stack, frame)]

\* utils.checkReady: the wrapper of every decorated method
checkReady(m, fn, frame) ==
  IF m.ready
  THEN [m EXCEPT !.stack = Append(m.stack, frame)]
  ELSE Throw(m, "NotReady", fn)

\* a call of a decorated method from a method; the caller continues at pc
Invoke(m, pc, frame) == checkReady(Goto(m, pc), frame.fn, frame)

\* a call of a private method
InvokePrivate(m, pc, frame) ==
  LET g == Goto(m, pc) IN [g EXCEPT !.stack = Append(g.stack, frame)]

(***************************************************************************)
(* The methods of the class.  Each operator takes the machine with a frame *)
(* of the method on top and runs the method from the frame's pc to its     *)
(* next call, await or return.                                             *)
(***************************************************************************)

\* a rejection that loses the error of the awaited call
RethrowOther(m) == Throw(m, "Error", Top(m).fn)

\* a rejected request to the file system rejects the method that awaits it
Failed(m) == m.io.stage = "err"
Rethrow(m) == Throw(m, m.io.err, Top(m).fn)

\* public async open(callback?), src/src/Ghomap.ts 154-174
open(m) ==
  LET f == Top(m) IN
  CASE f.pc = "start" ->
         IF cacheOnly THEN Return([m EXCEPT !.ready = TRUE], OfVal(Void))
         ELSE IF baseDir THEN Yield(m, "base")
         ELSE StartIO(m, Request("mkdirBase", NoKey, <<>>), "base")
    [] f.pc = "base" ->
         IF Failed(m) THEN Rethrow(m)
         ELSE IF dir THEN Yield([m EXCEPT !.io = NoIO], "dir")
         ELSE StartIO(m, Request("mkdir", NoKey, <<>>), "dir")
    [] f.pc = "dir" ->
         IF Failed(m) THEN Rethrow(m)
         ELSE IF fetchAllOnStart /\ useCache
         THEN StartIO(m, Request("readdir", NoKey, <<>>), "scan")
         ELSE Return([m EXCEPT !.ready = TRUE], OfVal(Void))
    [] f.pc = "scan" ->
         IF Failed(m) THEN Rethrow(m)
         ELSE SetTop([m EXCEPT !.io = NoIO],
                     [f EXCEPT !.keys = JsonKeys(m.io.names), !.i = 1, !.pc = "loop"])
    [] f.pc = "loop" ->
         IF f.i > Len(f.keys)
         THEN Return([m EXCEPT !.ready = TRUE], Payload(Void, f.acc, <<>>))
         ELSE StartIO(m, Request("readFile", f.keys[f.i], <<>>), "read")
    [] f.pc = "read" ->
         IF Failed(m) THEN Rethrow(m)
         ELSE LET p == parse(m.io.text)
                  value == Nullish(p.v, Null)
                  key == f.keys[f.i]
              IN IF ~p.ok THEN Throw(m, "SyntaxError", "open")
                 ELSE SetTop([m EXCEPT !.io = NoIO,
                                       !.cache = IF value # Null
                                                 THEN MapSet(m.cache, key, value)
                                                 ELSE m.cache],
                             [f EXCEPT !.i = f.i + 1, !.pc = "loop",
                                       !.acc = IF value # Null
                                               THEN Append(f.acc, [key |-> key, val |-> value])
                                               ELSE f.acc])

\* public async destroy(), src/src/Ghomap.ts 179-184
destroy(m) ==
  LET f == Top(m) IN
  CASE f.pc = "start" -> Invoke(m, "rm", Frame("deleteAll", NoKey, Undefined))
    [] f.pc = "rm" -> StartIO(m, Request("rmdir", NoKey, <<>>), "done")
    [] f.pc = "done" ->
         IF Failed(m) THEN Rethrow(m)
         ELSE Return([m EXCEPT !.ready = FALSE], OfVal(Void))

\* public async delete(key), src/src/Ghomap.ts 191-200
delete(m) ==
  LET f == Top(m) IN
  CASE f.pc = "start" ->
         IF cacheOnly
         THEN Return([m EXCEPT !.cache = MapDelete(m.cache, f.key)], OfVal(Void))
         ELSE IF ~existsSync(files, f.key) THEN Return(m, OfVal(Void))
         ELSE StartIO(m, Request("unlink", f.key, <<>>), "unlinked")
    [] f.pc = "unlinked" ->
         IF Failed(m) THEN Rethrow(m)
         ELSE Return([m EXCEPT !.cache = IF useCache
                                         THEN MapDelete(m.cache, f.key)
                                         ELSE m.cache],
                     OfVal(Void))

\* public deleteAll(), src/src/Ghomap.ts 205-208
deleteAll(m) ==
  LET f == Top(m) IN
  CASE f.pc = "start" ->
         Invoke(m, "ret", [Frame("forEach", NoKey, Undefined) EXCEPT !.visitor = "delete"])
    [] f.pc = "ret" -> Return(m, OfVal(Void))

\* a forEach that walks the live cache instead of the copy [...entries]
forEachLive(m) ==
  LET f == Top(m) IN
  CASE f.pc = "start" ->
         IF cacheUsed
         THEN SetTop(m, [f EXCEPT !.ents = m.cache, !.i = 1, !.pc = "loop"])
         ELSE Invoke(m, "spread", Frame("fetchAll", NoKey, Undefined))
    [] f.pc = "spread" ->
         SetTop(m, [f EXCEPT !.ents = f.ret.ents, !.i = 1, !.pc = "loop"])
    [] f.pc = "loop" ->
         IF f.i > Len(f.ents) THEN Return(m, OfVal(Void))
         ELSE Invoke(m, "next", Frame("delete", f.ents[f.i].key, Undefined))
    [] f.pc = "next" ->
         SetTop(m, [f EXCEPT !.ents = IF cacheUsed THEN m.cache ELSE f.ents,
                             !.i = f.i + 1, !.pc = "loop"])

\* public async forEach(callback), src/src/Ghomap.ts 443-451
forEach(m) ==
  LET f == Top(m) IN
  CASE f.pc = "start" ->
         IF cacheUsed
         THEN SetTop(m, [f EXCEPT !.ents = m.cache, !.i = 1, !.pc = "loop"])
         ELSE Invoke(m, "spread", Frame("fetchAll", NoKey, Undefined))
    [] f.pc = "spread" ->
         SetTop(m, [f EXCEPT !.ents = f.ret.ents, !.i = 1, !.pc = "loop"])
    [] f.pc = "loop" ->
         IF f.i > Len(f.ents) THEN Return(m, OfVal(Void))
         ELSE \* await callback(data, key): (data, key) => this.delete(key)
              Invoke(m, "next", Frame("delete", f.ents[f.i].key, Undefined))
    [] f.pc = "next" -> SetTop(m, [f EXCEPT !.i = f.i + 1, !.pc = "loop"])

\* public async fetchKeys(), src/src/Ghomap.ts 632-644
fetchKeys(m) ==
  LET f == Top(m) IN
  CASE f.pc = "start" ->
         IF cacheOnly THEN Return(m, Payload(Undefined, <<>>, MapKeys(m.cache)))
         ELSE StartIO(m, Request("readdir", NoKey, <<>>), "list")
    [] f.pc = "list" ->
         IF Failed(m) THEN Rethrow(m)
         ELSE Return(m, Payload(Undefined, <<>>, JsonKeys(m.io.names)))

\* public fetchAll(), src/src/Ghomap.ts 603-613
fetchAll(m) ==
  LET f == Top(m) IN
  CASE f.pc = "start" -> Invoke(m, "keys", Frame("fetchKeys", NoKey, Undefined))
    [] f.pc = "keys" ->
         SetTop(m, [f EXCEPT !.keys = f.ret.keys, !.acc = <<>>, !.i = 1, !.pc = "loop"])
    [] f.pc = "loop" ->
         IF f.i > Len(f.keys) THEN Return(m, Payload(Undefined, f.acc, <<>>))
         ELSE Invoke(m, "got", Frame("get", f.keys[f.i], Undefined))
    [] f.pc = "got" ->
         SetTop(m, [f EXCEPT !.acc = IF f.ret.v # Null
                                     THEN MapSet(f.acc, f.keys[f.i], f.ret.v)
                                     ELSE f.acc,
                             !.i = f.i + 1, !.pc = "loop"])

\* a get that does not check the syntax of the key
getUnchecked(m) ==
  LET f == Top(m) IN
  CASE f.pc = "start" ->
         IF cacheUsed THEN Return(m, OfVal(Nullish(MapGet(m.cache, f.key), Null)))
         ELSE IF ~existsSync(files, f.key) THEN Return(m, OfVal(Null))
         ELSE StartIO(m, Request("readFile", f.key, <<>>), "read")
    [] f.pc = "read" ->
         IF Failed(m) THEN Rethrow(m)
         ELSE LET p == parse(m.io.text)
              IN IF ~p.ok THEN Throw(m, "SyntaxError", "get")
                 ELSE Return(m, OfVal(Nullish(p.v, Null)))

\* a get that keeps what it read from the disk in the cache
getCaching(m) ==
  LET f == Top(m) IN
  CASE f.pc = "start" ->
         IF ~validateKey(f.key) THEN Throw(m, "InvalidKey", "get")
         ELSE IF cacheUsed THEN Return(m, OfVal(Nullish(MapGet(m.cache, f.key), Null)))
         ELSE IF ~existsSync(files, f.key) THEN Return(m, OfVal(Null))
         ELSE StartIO(m, Request("readFile", f.key, <<>>), "read")
    [] f.pc = "read" ->
         IF Failed(m) THEN Rethrow(m)
         ELSE LET p == parse(m.io.text)
              IN IF ~p.ok THEN Throw(m, "SyntaxError", "get")
                 ELSE Return([m EXCEPT !.cache = MapSet(m.cache, f.key, p.v)],
                             OfVal(Nullish(p.v, Null)))

\* public async get(key), src/src/Ghomap.ts 269-276
get(m) ==
  LET f == Top(m) IN
  CASE f.pc = "start" ->
         IF ~validateKey(f.key) THEN Throw(m, "InvalidKey", "get")
         ELSE IF cacheUsed THEN Return(m, OfVal(Nullish(MapGet(m.cache, f.key), Null)))
         ELSE IF ~existsSync(files, f.key) THEN Return(m, OfVal(Null))
         ELSE StartIO(m, Request("readFile", f.key, <<>>), "read")
    [] f.pc = "read" ->
         IF Failed(m) THEN Rethrow(m)
         ELSE LET p == parse(m.io.text)
              IN IF ~p.ok THEN Throw(m, "SyntaxError", "get")
                 ELSE Return(m, OfVal(Nullish(p.v, Null)))

\* a write that starts fsp.writeFile whatever the pending writes hold
writeUnguarded(m) ==
  LET f == Top(m) IN
  CASE f.pc = "start" ->
         LET w == [m EXCEPT !.waiting[f.key] = f.val]
         IN IF ~Serializable(f.val) THEN Throw(w, "NotSerializable", "write")
            ELSE StartIO(SetTop(w, [f EXCEPT !.written = stringify(f.val)]),
                         Request("writeFile", f.key, stringify(f.val)), "wrote")
    [] f.pc = "wrote" ->
         IF Failed(m) THEN Rethrow(m)
         ELSE Return([m EXCEPT !.waiting[f.key] = Undefined], OfVal(Void))
    [] f.pc = "ret" -> Return(m, OfVal(Void))

\* a write whose catch-up writes again what it wrote, while the pending
\* value differs
writeRepeat(m) ==
  LET f == Top(m) IN
  CASE f.pc = "start" ->
         IF m.waiting[f.key] = Undefined
         THEN LET w == [m EXCEPT !.waiting[f.key] = f.val]
              IN IF ~Serializable(f.val) THEN Throw(w, "NotSerializable", "write")
                 ELSE StartIO(SetTop(w, [f EXCEPT !.written = stringify(f.val)]),
                              Request("writeFile", f.key, stringify(f.val)), "wrote")
         ELSE Return([m EXCEPT !.waiting[f.key] = f.val], OfVal(Void))
    [] f.pc = "wrote" ->
         IF Failed(m) THEN Rethrow(m)
         ELSE IF m.waiting[f.key] # Undefined /\ ~Serializable(m.waiting[f.key])
         THEN Throw(m, "NotSerializable", "write")
         ELSE IF /\ m.waiting[f.key] # Undefined
                 /\ stringify(m.waiting[f.key]) # f.written
         THEN StartIO([m EXCEPT !.io = NoIO],
                      Request("writeFile", f.key, f.written), "wrote")
         ELSE Return([m EXCEPT !.waiting[f.key] = Undefined], OfVal(Void))
    [] f.pc = "ret" -> Return(m, OfVal(Void))

\* private async write(key, data), src/src/Ghomap.ts 677-693
write(m) ==
  LET f == Top(m) IN
  CASE f.pc = "start" ->
         IF m.waiting[f.key] = Undefined
         THEN LET w == [m EXCEPT !.waiting[f.key] = f.val]
              IN IF ~Serializable(f.val) THEN Throw(w, "NotSerializable", "write")
                 ELSE StartIO(SetTop(w, [f EXCEPT !.written = stringify(f.val)]),
                              Request("writeFile", f.key, stringify(f.val)), "wrote")
         ELSE Return([m EXCEPT !.waiting[f.key] = f.val], OfVal(Void))
    [] f.pc = "wrote" ->
         IF Failed(m) THEN Rethrow(m)
         ELSE IF m.waiting[f.key] # Undefined /\ ~Serializable(m.waiting[f.key])
         THEN Throw(m, "NotSerializable", "write")
         ELSE IF /\ m.waiting[f.key] # Undefined
                 /\ stringify(m.waiting[f.key]) # f.written
         THEN InvokePrivate([m EXCEPT !.io = NoIO], "ret",
                            Frame("write", f.key, m.waiting[f.key]))
         ELSE Return([m EXCEPT !.waiting[f.key] = Undefined], OfVal(Void))
    [] f.pc = "ret" -> Return(m, OfVal(Void))

\* a set that stores the file and leaves the cache as it is
setUncached(m) ==
  LET f == Top(m) IN
  CASE f.pc = "start" ->
         IF ~validateKey(f.key) THEN Throw(m, "InvalidKey", "set")
         ELSE IF cacheOnly THEN Return(m, OfVal(f.val))
         ELSE InvokePrivate(m, "written", Frame("write", f.key, f.val))
    [] f.pc = "written" -> Return(m, OfVal(f.val))

\* public async set(key, data), src/src/Ghomap.ts 252-261
set(m) ==
  LET f == Top(m) IN
  CASE f.pc = "start" ->
         IF ~validateKey(f.key) THEN Throw(m, "InvalidKey", "set")
         ELSE LET c == IF cacheOnly \/ useCache
                       THEN [m EXCEPT !.cache = MapSet(m.cache, f.key, f.val)]
                       ELSE m
              IN IF cacheOnly THEN Return(c, OfVal(f.val))
                 ELSE InvokePrivate(c, "written", Frame("write", f.key, f.val))
    [] f.pc = "written" -> Return(m, OfVal(f.val))

\* public has(key), src/src/Ghomap.ts 228-232
has(m) ==
  LET f == Top(m) IN
  IF cacheUsed THEN Return(m, OfVal(Bool(MapHas(m.cache, f.key))))
  ELSE Return(m, OfVal(Bool(existsSync(files, f.key))))

\* public async count(), src/src/Ghomap.ts 239-243
count(m) ==
  LET f == Top(m) IN
  CASE f.pc = "start" ->
         IF cacheUsed THEN Return(m, OfVal(Num(Len(m.cache))))
         ELSE StartIO(m, Request("readdir", NoKey, <<>>), "list")
    [] f.pc = "list" ->
         IF Failed(m) THEN Rethrow(m)
         ELSE Return(m, OfVal(Num(Len(m.io.names))))

\* public async random(), src/src/Ghomap.ts 213-220; m.rnd is the number that
\* Math.random draws
random(m) ==
  LET f == Top(m) IN
  CASE f.pc = "start" ->
         IF cacheUsed
         THEN SetTop(m, [f EXCEPT !.keys = MapKeys(m.cache), !.pc = "pick"])
         ELSE Invoke(m, "keys", Frame("fetchKeys", NoKey, Undefined))
    [] f.pc = "keys" -> SetTop(m, [f EXCEPT !.keys = f.ret.keys, !.pc = "pick"])
    [] f.pc = "pick" ->
         IF Len(f.keys) = 0 THEN Return(m, OfVal(Null))
         ELSE Invoke(m, "ret", Frame("get", f.keys[(m.rnd % Len(f.keys)) + 1], Undefined))
    [] f.pc = "ret" -> Return(m, f.ret)

\* public async ensure(key, defaultValue), src/src/Ghomap.ts 290-294
ensure(m) ==
  LET f == Top(m) IN
  CASE f.pc = "start" -> Invoke(m, "got", Frame("get", f.key, Undefined))
    [] f.pc = "got" ->
         IF f.ret.v # Null THEN Return(m, f.ret)
         ELSE Invoke(m, "set", Frame("set", f.key, f.val))
    [] f.pc = "set" -> Return(m, f.ret)

\* a guard that lets every value pass as an array
IsArrayAny(data) == TRUE

\* data instanceof Array
IsArray(data) == data.t = "arr"

\* data.indexOf(item), 0 when the item is not found (-1 in the source)
IndexOf(a, item) ==
  IF \E i \in 1..Len(a) : a[i] = item
  THEN CHOOSE i \in 1..Len(a) : a[i] = item /\ \A j \in 1..(i - 1) : a[j] # item
  ELSE 0

\* data.splice(index, 1)
Splice(a, index) == SubSeq(a, 1, index - 1) \o SubSeq(a, index + 1, Len(a))

\* a method of Array called on the value get returned: with the cache in use
\* that value is the object the cache holds, which changes with it
Mutated(m, key, old, new) ==
  IF cacheUsed /\ MapHas(m.cache, key) /\ MapGet(m.cache, key) = old
  THEN [m EXCEPT !.cache = MapSet(m.cache, key, new)]
  ELSE m

\* public async push(key, ...items), src/src/Ghomap.ts 308-317; f.val is
\* the array of the items
push(m) ==
  LET f == Top(m) IN
  CASE f.pc = "start" -> Invoke(m, "got", Frame("get", f.key, Undefined))
    [] f.pc = "got" ->
         IF IsArray(f.ret.v)
         THEN LET data == Arr(f.ret.v.a \o f.val.a)
              IN Invoke(Mutated(m, f.key, f.ret.v, data), "set", Frame("set", f.key, data))
         ELSE Throw(m, "TargetTypeError", "push")
    [] f.pc = "set" -> Return(m, OfVal(f.val))

\* public async unshift(key, item), src/src/Ghomap.ts 331-340
unshift(m) ==
  LET f == Top(m) IN
  CASE f.pc = "start" -> Invoke(m, "got", Frame("get", f.key, Undefined))
    [] f.pc = "got" ->
         IF IsArray(f.ret.v)
         THEN LET data == Arr(<<f.val.n>> \o f.ret.v.a)
              IN Invoke(Mutated(m, f.key, f.ret.v, data), "set", Frame("set", f.key, data))
         ELSE Throw(m, "TargetTypeError", "unshift")
    [] f.pc = "set" -> Return(m, OfVal(f.val))

\* public async pop(key), src/src/Ghomap.ts 353-362; f.acc holds the local pop
pop(m) ==
  LET f == Top(m) IN
  CASE f.pc = "start" -> Invoke(m, "got", Frame("get", f.key, Undefined))
    [] f.pc = "got" ->
         IF IsArray(f.ret.v)
         THEN LET a == f.ret.v.a
                  item == IF Len(a) = 0 THEN Undefined ELSE Num(a[Len(a)])
                  data == Arr(SubSeq(a, 1, Len(a) - 1))
              IN Invoke(SetTop(Mutated(m, f.key, f.ret.v, data), [f EXCEPT !.acc = <<item>>]),
                        "set", Frame("set", f.key, data))
         ELSE Throw(m, "TargetTypeError", "pop")
    [] f.pc = "set" -> Return(m, OfVal(f.acc[1]))

\* public async shift(key), src/src/Ghomap.ts 375-384; f.acc holds the local shift
shift(m) ==
  LET f == Top(m) IN
  CASE f.pc = "start" -> Invoke(m, "got", Frame("get", f.key, Undefined))
    [] f.pc = "got" ->
         IF IsArray(f.ret.v)
         THEN LET a == f.ret.v.a
                  item == IF Len(a) = 0 THEN Undefined ELSE Num(a[1])
                  data == Arr(SubSeq(a, 2, Len(a)))
              IN Invoke(SetTop(Mutated(m, f.key, f.ret.v, data), [f EXCEPT !.acc = <<item>>]),
                        "set", Frame("set", f.key, data))
         ELSE Throw(m, "TargetTypeError", "shift")
    [] f.pc = "set" -> Return(m, OfVal(f.acc[1]))

\* public async remove(key, item), src/src/Ghomap.ts 397-407; f.i holds the
\* local index
remove(m) ==
  LET f == Top(m) IN
  CASE f.pc = "start" -> Invoke(m, "got", Frame("get", f.key, Undefined))
    [] f.pc = "got" ->
         IF IsArray(f.ret.v)
         THEN LET a == f.ret.v.a
                  index == IndexOf(a, f.val.n)
                  data == IF index # 0 THEN Arr(Splice(a, index)) ELSE f.ret.v
              IN Invoke(SetTop(Mutated(m, f.key, f.ret.v, data), [f EXCEPT !.i = index]),
                        "set", Frame("set", f.key, data))
         ELSE Throw(m, "TargetTypeError", "shift")
    [] f.pc = "set" -> Return(m, OfVal(IF f.i = 0 THEN Null ELSE f.val))

\* public async includes(key, item), src/src/Ghomap.ts 423-430
includes(m) ==
  LET f == Top(m) IN
  CASE f.pc = "start" -> Invoke(m, "got", Frame("get", f.key, Undefined))
    [] f.pc = "got" ->
         IF IsArray(f.ret.v)
         THEN Return(m, OfVal(Bool(IndexOf(f.ret.v.a, f.val.n) # 0)))
         ELSE Throw(m, "TargetTypeError", "includes")

\* the callbacks passed to some and every: (data) => true and
\* (data) => data === n
AnyPred == Val("any", 0, <<>>)
IsPred(n) == Val("is", n, <<>>)
Holds(pred, data) == pred.t = "any" \/ (data.t = "num" /\ data.n = pred.n)

\* public async some(callback), src/src/Ghomap.ts 489-499; f.val is the
\* callback
some(m) ==
  LET f == Top(m) IN
  CASE f.pc = "start" ->
         IF cacheUsed
         THEN SetTop(m, [f EXCEPT !.ents = m.cache, !.i = 1, !.pc = "loop"])
         ELSE Invoke(m, "spread", Frame("fetchAll", NoKey, Undefined))
    [] f.pc = "spread" ->
         SetTop(m, [f EXCEPT !.ents = f.ret.ents, !.i = 1, !.pc = "loop"])
    [] f.pc = "loop" ->
         IF f.i > Len(f.ents) THEN Return(m, OfVal(Bool(FALSE)))
         ELSE Yield(m, "test")
    [] f.pc = "test" ->
         IF Holds(f.val, f.ents[f.i].val) THEN Return(m, OfVal(Bool(TRUE)))
         ELSE SetTop(m, [f EXCEPT !.i = f.i + 1, !.pc = "loop"])

\* public async every(callback), src/src/Ghomap.ts 514-519
every(m) ==
  LET f == Top(m) IN
  CASE f.pc = "start" -> Invoke(m, "ret", Frame("some", NoKey, f.val))
    [] f.pc = "ret" -> Return(m, OfVal(Bool(f.ret.v # Bool(TRUE))))

\* the start of the methods that walk the entries: const entries =
\* this.cacheUsed ? this.cache : await this.fetchAll(), then the loop over
\* [...entries]
Spread(m) ==
  LET f == Top(m) IN
  IF f.pc = "start"
  THEN IF cacheUsed
       THEN SetTop(m, [f EXCEPT !.ents = m.cache, !.acc = <<>>, !.i = 1, !.pc = "loop"])
       ELSE Invoke(m, "spread", Frame("fetchAll", NoKey, Undefined))
  ELSE SetTop(m, [f EXCEPT !.ents = f.ret.ents, !.acc = <<>>, !.i = 1, !.pc = "loop"])

\* public async map(callback), src/src/Ghomap.ts 465-475; the callback gives
\* the result of the test f.val
map(m) ==
  LET f == Top(m) IN
  CASE f.pc \in {"start", "spread"} -> Spread(m)
    [] f.pc = "loop" ->
         IF f.i > Len(f.ents) THEN Return(m, OfList(f.acc))
         ELSE Yield(m, "test")
    [] f.pc = "test" ->
         SetTop(m, [f EXCEPT !.acc = Append(f.acc, Bool(Holds(f.val, f.ents[f.i].val))),
                             !.i = f.i + 1, !.pc = "loop"])

\* public async filter(callback), src/src/Ghomap.ts 533-545
filter(m) ==
  LET f == Top(m) IN
  CASE f.pc \in {"start", "spread"} -> Spread(m)
    [] f.pc = "loop" ->
         IF f.i > Len(f.ents) THEN Return(m, Payload(Undefined, f.acc, <<>>))
         ELSE Yield(m, "test")
    [] f.pc = "test" ->
         SetTop(m, [f EXCEPT !.acc = IF Holds(f.val, f.ents[f.i].val)
                                     THEN MapSet(f.acc, f.ents[f.i].key, f.ents[f.i].val)
                                     ELSE f.acc,
                             !.i = f.i + 1, !.pc = "loop"])

\* public async filterArray(callback), src/src/Ghomap.ts 559-571
filterArray(m) ==
  LET f == Top(m) IN
  CASE f.pc \in {"start", "spread"} -> Spread(m)
    [] f.pc = "loop" ->
         IF f.i > Len(f.ents) THEN Return(m, OfList(f.acc))
         ELSE Yield(m, "test")
    [] f.pc = "test" ->
         SetTop(m, [f EXCEPT !.acc = IF Holds(f.val, f.ents[f.i].val)
                                     THEN Append(f.acc, f.ents[f.i].val)
                                     ELSE f.acc,
                             !.i = f.i + 1, !.pc = "loop"])

\* public async find(callback), src/src/Ghomap.ts 585-596
find(m) ==
  LET f == Top(m) IN
  CASE f.pc \in {"start", "spread"} -> Spread(m)
    [] f.pc = "loop" ->
         IF f.i > Len(f.ents) THEN Return(m, OfVal(Null))
         ELSE Yield(m, "test")
    [] f.pc = "test" ->
         IF Holds(f.val, f.ents[f.i].val) THEN Return(m, OfVal(f.ents[f.i].val))
         ELSE SetTop(m, [f EXCEPT !.i = f.i + 1, !.pc = "loop"])

\* public fetchValues(), src/src/Ghomap.ts 620-625
fetchValues(m) ==
  LET f == Top(m) IN
  CASE f.pc = "start" -> Invoke(m, "ret", Frame("fetchAll", NoKey, Undefined))
    [] f.pc = "ret" ->
         Return(m, OfList([j \in 1..Len(f.ret.ents) |-> f.ret.ents[j].val]))

\* one step of the method on top of the stack
Step(m) ==
  LET fn == Top(m).fn IN
  CASE fn = "open" -> open(m)
    [] fn = "destroy" -> destroy(m)
    [] fn = "delete" -> delete(m)
    [] fn = "deleteAll" -> deleteAll(m)
    [] fn = "forEach" -> forEach(m)
    [] fn = "fetchKeys" -> fetchKeys(m)
    [] fn = "fetchAll" -> fetchAll(m)
    [] fn = "get" -> get(m)
    [] fn = "write" -> write(m)
    [] fn = "set" -> set(m)
    [] fn = "has" -> has(m)
    [] fn = "count" -> count(m)
    [] fn = "random" -> random(m)
    [] fn = "ensure" -> ensure(m)
    [] fn = "push" -> push(m)
    [] fn = "unshift" -> unshift(m)
    [] fn = "pop" -> pop(m)
    [] fn = "shift" -> shift(m)
    [] fn = "remove" -> remove(m)
    [] fn = "includes" -> includes(m)
    [] fn = "some" -> some(m)
    [] fn = "every" -> every(m)
    [] fn = "map" -> map(m)
    [] fn = "filter" -> filter(m)
    [] fn = "filterArray" -> filterArray(m)
    [] fn = "find" -> find(m)
    [] fn = "fetchValues" -> fetchValues(m)

\* the synchronous run of an operation up to its next suspension or its end
RECURSIVE Run(_)
Run(m) ==
  IF m.wait # "run" THEN m
  ELSE CHOOSE r \in {Run(n) : n \in {Step(m)}} : TRUE

(***************************************************************************)
(* The file system.                                                        *)
(***************************************************************************)
Done(req) == [req EXCEPT !.stage = "ok"]
Fail(req, err) == [req EXCEPT !.stage = "err", !.err = err]

\* fsp.readdir(this.path) and fsp.readFile(this.filepath(key), "utf-8")
Serve(req) ==
  CASE req.kind = "readdir" ->
         IF dir THEN [Done(req) EXCEPT !.names = DirNames(files)]
         ELSE Fail(req, "ENOENT")
    [] req.kind = "readFile" ->
         IF dir /\ files[req.key] # NoFile
         THEN [Done(req) EXCEPT !.text = files[req.key]]
         ELSE Fail(req, "ENOENT")

(***************************************************************************)
(* What a method that only reads answers when it is invoked in the current *)
(* state and runs with no other operation in flight: its own code, with    *)
(* every read of the directory served at once.                             *)
(***************************************************************************)
RECURSIVE RunAlone(_)
RunAlone(m) ==
  IF m.wait = "done" THEN m
  ELSE IF m.wait = "io" THEN RunAlone([m EXCEPT !.io = Serve(m.io), !.wait = "run"])
  ELSE RunAlone(Step([m EXCEPT !.wait = "run"]))

Answer(fn, key) ==
  RunAlone(checkReady(Machine(Idle, "io"), fn, Frame(fn, key, Undefined)))

HasNow(key) == Answer("has", key).out.v = Bool(TRUE)
GetNow(key) == Answer("get", key).out.v
CountNow == Answer("count", NoKey).out.v.n

(***************************************************************************)
(* Initial states: a store that was just constructed, over a directory     *)
(* that is not there yet or that an earlier run of the program left.       *)
(***************************************************************************)
NoFiles == [k \in Names |-> NoFile]
Off == Val("off", 0, <<>>)

InitDisks ==
  {[base |-> FALSE, dir |-> FALSE, files |-> NoFiles],
   [base |-> TRUE, dir |-> TRUE, files |-> [NoFiles EXCEPT ![KeyA] = stringify(Num(1))]]}

\* the options of the constructor; a cache-only store reads neither useCache
\* nor fetchAllOnStart, which keep their defaults there
Options ==
  {o \in [useCache : BOOLEAN, cacheOnly : BOOLEAN, fetchAllOnStart : BOOLEAN] :
     o.cacheOnly => o.useCache /\ o.fetchAllOnStart}

\* nothing is examined yet
NoProbe ==
  [fn |-> "none", key |-> <<>>, accepted |-> FALSE, touched |-> {},
   acceptedGeneral |-> FALSE, touchedGeneral |-> {}]

\* constructor(options), src/src/Ghomap.ts 125-144
Construct(options, disks) ==
  /\ \E o \in options :
       /\ useCache = o.useCache
       /\ cacheOnly = o.cacheOnly
       /\ fetchAllOnStart = o.fetchAllOnStart
  /\ ready = cacheOnly
  /\ cache = <<>>
  /\ waiting = [k \in Keys |-> Undefined]
  /\ \E d \in disks :
       /\ baseDir = d.base
       /\ dir = d.dir
       /\ files = d.files
       /\ latest = [k \in Keys |-> IF d.files[k] = NoFile THEN Undefined ELSE Off]
  /\ ops = [s \in Slots |-> Idle]
  /\ last = NoLast
  /\ calls = 0
  /\ prev = NoPrev
  /\ probe = NoProbe
  /\ gate = "new"

Init == Construct(Options, InitDisks)

(***************************************************************************)
(* Invocations.                                                            *)
(***************************************************************************)
Active(s) == ops[s].name # "idle"
AllIdle == \A s \in Slots : ~Active(s)
NoMicro == \A s \in Slots : ops[s].wait # "micro"

\* the history of the lifecycle: an open or a destroy that completed
Gate(op, m) ==
  IF m.err # "" THEN gate
  ELSE IF op.name = "open" THEN "open"
  ELSE IF op.name = "destroy" THEN "destroyed"
  ELSE gate

Settled(op, m) ==
  [name |-> op.name, key |-> op.key, val |-> op.val, alone |-> op.alone,
   pre |-> op.pre, out |-> m.out, err |-> m.err, errOp |-> m.errOp]

\* the state after operation op of slot s ran to machine state m; others is
\* the state of the other slots
Commit(s, op, m, others) ==
  /\ ready' = m.ready
  /\ cache' = m.cache
  /\ waiting' = m.waiting
  /\ IF m.wait = "done"
     THEN /\ ops' = [others EXCEPT ![s] = Idle]
          /\ last' = Settled(op, m)
          /\ gate' = Gate(op, m)
     ELSE /\ ops' = [others EXCEPT ![s] = [op EXCEPT !.stack = m.stack,
                                                     !.wait = m.wait,
                                                     !.io = m.io]]
          /\ UNCHANGED <<last, gate>>

\* the methods that store a changed array
ArrayWrites == {"push", "unshift", "pop", "shift", "remove"}

\* the record of an invocation in prev
Prev(name, key, val) ==
  IF name = "set" /\ ready
  THEN [name |-> name, key |-> key, val |-> val, alone |-> AllIdle]
  ELSE NoPrev

\* the history of the sets: the value of the latest set invoked for a key,
\* Off once the key was passed to ensure or to a deletion, or a value that
\* cannot be serialized was set
Latest(name, key, val) ==
  [k \in Keys |->
     IF ~ready THEN latest[k]
     ELSE IF name = "set" /\ k = key
     THEN (IF latest[k] = Off \/ ~Serializable(val) THEN Off ELSE val)
     ELSE IF name \in {"ensure"} \cup ArrayWrites /\ k = key THEN Off
     ELSE IF name = "delete" /\ k = key /\ latest[k] # Undefined THEN Off
     ELSE IF name \in {"deleteAll", "destroy"} /\ latest[k] # Undefined THEN Off
     ELSE latest[k]]

\* the methods whose claims compare the state before and after the invocation
PreOps == {"ensure", "includes"} \cup ArrayWrites

\* an invocation of a public method by a caller, the budget-th at most
Call(budget, name, key, val, rnd) ==
  /\ calls < budget
  /\ \E s \in Slots :
       /\ ~Active(s)
       /\ \A t \in Slots : t < s => Active(t)
       /\ LET op == [Idle EXCEPT !.name = name, !.key = key,
                                 !.val = val, !.rnd = rnd, !.alone = AllIdle,
                                 !.pre = IF name \in PreOps /\ ready /\ key \in Keys
                                         THEN Pre(HasNow(key), GetNow(key),
                                                  MapGet(cache, key), files[key])
                                         ELSE NoPre]
              m0 == Machine(op, "sync")
              frame == Frame(name, key, val)
              m == IF name = "open"
                   THEN [m0 EXCEPT !.stack = <<frame>>]
                   ELSE checkReady(m0, name, frame)
              others == [t \in Slots |-> IF Active(t) THEN [ops[t] EXCEPT !.alone = FALSE]
                                         ELSE ops[t]]
          IN \E r \in {Run(m)} : Commit(s, op, r, others)
  /\ calls' = calls + 1
  /\ prev' = Prev(name, key, val)
  /\ latest' = Latest(name, key, val)
  /\ UNCHANGED <<useCache, cacheOnly, fetchAllOnStart, baseDir, dir, files, probe>>

CallOpen == Call(MaxCalls, "open", NoKey, Undefined, 0)
CallDestroy == Call(MaxCalls, "destroy", NoKey, Undefined, 0)
CallDelete == \E k \in Keys : Call(MaxCalls, "delete", k, Undefined, 0)
CallDeleteAll == Call(MaxCalls, "deleteAll", NoKey, Undefined, 0)
CallRandom == \E r \in 0..(Cardinality(Keys) - 1) : Call(MaxCalls, "random", NoKey, Undefined, r)
CallHas == \E k \in Keys : Call(MaxCalls, "has", k, Undefined, 0)
CallCount == Call(MaxCalls, "count", NoKey, Undefined, 0)
CallSet == \E k \in Keys, v \in Values : Call(MaxCalls, "set", k, v, 0)
CallGet == \E k \in Keys : Call(MaxCalls, "get", k, Undefined, 0)
CallEnsure == \E k \in Keys, v \in Values : Call(MaxCalls, "ensure", k, v, 0)
CallFetchAll == Call(MaxCalls, "fetchAll", NoKey, Undefined, 0)

(***************************************************************************)
(* Steps of an operation in flight.                                        *)
(***************************************************************************)
\* the continuation of an await on a promise that was already settled
Tick(s) ==
  /\ ops[s].wait = "micro"
  /\ \E m \in {Run(Machine(ops[s], "sync"))} : Commit(s, ops[s], m, ops)
  /\ UNCHANGED <<useCache, cacheOnly, fetchAllOnStart, baseDir, dir, files, calls,
               prev, probe, latest>>

\* the completion of a request to the file system is delivered
Resume(s) ==
  /\ ops[s].wait = "io"
  /\ ops[s].io.stage \in {"ok", "err"}
  /\ NoMicro
  /\ \E m \in {Run(Machine(ops[s], "io"))} : Commit(s, ops[s], m, ops)
  /\ UNCHANGED <<useCache, cacheOnly, fetchAllOnStart, baseDir, dir, files, calls,
               prev, probe, latest>>

Pending(s, kind) ==
  /\ ops[s].wait = "io"
  /\ ops[s].io.stage = "req"
  /\ ops[s].io.kind = kind

Answered(s, req) == ops' = [ops EXCEPT ![s].io = req]

FsFrame ==
  UNCHANGED <<useCache, cacheOnly, fetchAllOnStart, ready, cache, waiting, last,
              calls, prev, probe, latest, gate>>

\* fsp.mkdir(Ghomap.path)
FsMkdirBase(s) ==
  /\ Pending(s, "mkdirBase")
  /\ IF baseDir
     THEN Answered(s, Fail(ops[s].io, "EEXIST")) /\ UNCHANGED baseDir
     ELSE Answered(s, Done(ops[s].io)) /\ baseDir' = TRUE
  /\ UNCHANGED <<dir, files>>
  /\ FsFrame

\* fsp.mkdir(this.path)
FsMkdir(s) ==
  /\ Pending(s, "mkdir")
  /\ IF dir THEN Answered(s, Fail(ops[s].io, "EEXIST")) /\ UNCHANGED dir
     ELSE IF ~baseDir THEN Answered(s, Fail(ops[s].io, "ENOENT")) /\ UNCHANGED dir
     ELSE Answered(s, Done(ops[s].io)) /\ dir' = TRUE
  /\ UNCHANGED <<baseDir, files>>
  /\ FsFrame

\* fsp.readdir(this.path)
FsReaddir(s) ==
  /\ Pending(s, "readdir")
  /\ Answered(s, Serve(ops[s].io))
  /\ UNCHANGED <<baseDir, dir, files>>
  /\ FsFrame

\* fsp.readFile(this.filepath(key), "utf-8")
FsReadFile(s) ==
  /\ Pending(s, "readFile")
  /\ Answered(s, Serve(ops[s].io))
  /\ UNCHANGED <<baseDir, dir, files>>
  /\ FsFrame

\* fsp.writeFile(this.filepath(key), written, "utf-8")
FsWriteFile(s) ==
  /\ Pending(s, "writeFile")
  /\ IF dir
     THEN /\ Answered(s, Done(ops[s].io))
          /\ files' = [files EXCEPT ![ops[s].io.key] = ops[s].io.text]
     ELSE /\ Answered(s, Fail(ops[s].io, "ENOENT"))
          /\ UNCHANGED files
  /\ UNCHANGED <<baseDir, dir>>
  /\ FsFrame

\* fsp.unlink(this.filepath(key))
FsUnlink(s) ==
  /\ Pending(s, "unlink")
  /\ IF dir /\ files[ops[s].io.key] # NoFile
     THEN /\ Answered(s, Done(ops[s].io))
          /\ files' = [files EXCEPT ![ops[s].io.key] = NoFile]
     ELSE /\ Answered(s, Fail(ops[s].io, "ENOENT"))
          /\ UNCHANGED files
  /\ UNCHANGED <<baseDir, dir>>
  /\ FsFrame

\* fsp.rmdir(this.path)
FsRmdir(s) ==
  /\ Pending(s, "rmdir")
  /\ IF ~dir THEN Answered(s, Fail(ops[s].io, "ENOENT")) /\ UNCHANGED dir
     ELSE IF \E k \in Names : files[k] # NoFile
     THEN Answered(s, Fail(ops[s].io, "ENOTEMPTY")) /\ UNCHANGED dir
     ELSE Answered(s, Done(ops[s].io)) /\ dir' = FALSE
  /\ UNCHANGED <<baseDir, files>>
  /\ FsFrame

Next ==
  \/ CallOpen
  \/ CallDestroy
  \/ CallDelete
  \/ CallDeleteAll
  \/ CallRandom
  \/ CallHas
  \/ CallCount
  \/ CallSet
  \/ CallGet
  \/ CallEnsure
  \/ CallFetchAll
  \/ \E s \in Slots : Tick(s)
  \/ \E s \in Slots : Resume(s)
  \/ \E s \in Slots : FsMkdirBase(s)
  \/ \E s \in Slots : FsMkdir(s)
  \/ \E s \in Slots : FsReaddir(s)
  \/ \E s \in Slots : FsReadFile(s)
  \/ \E s \in Slots : FsWriteFile(s)
  \/ \E s \in Slots : FsUnlink(s)
  \/ \E s \in Slots : FsRmdir(s)

Spec == Init /\ [][Next]_vars

(***************************************************************************)
(* The store over a directory that holds arrays, a null, or a file that is *)
(* not JSON, with the array helpers, the scans and keys that are not       *)
(* kebab-case.                                                             *)
(***************************************************************************)
DataCalls == 3

\* the content of a file that JSON.parse throws on
Corrupt == <<"{">>

\* a key that utils.validateKey refuses
BadKey == <<".", ".", "/", "k">>
DataKeys == Keys \cup {BadKey}

DataDisks ==
  {[base |-> FALSE, dir |-> FALSE, files |-> NoFiles],
   [base |-> TRUE, dir |-> TRUE, files |-> [NoFiles EXCEPT ![KeyA] = stringify(Arr(<<1>>))]],
   [base |-> TRUE, dir |-> TRUE,
    files |-> [NoFiles EXCEPT ![KeyA] = stringify(Arr(<<1>>)), ![KeyB] = Corrupt]],
   [base |-> TRUE, dir |-> TRUE,
    files |-> [NoFiles EXCEPT ![KeyA] = stringify(Null), ![KeyB] = stringify(Num(1))]]}

DataOptions == {o \in Options : ~o.cacheOnly}

DataValues == {Arr(<<1>>), Circular}
Preds == {AnyPred, IsPred(1)}

InitData == Construct(DataOptions, DataDisks)

DataOpen == Call(DataCalls, "open", NoKey, Undefined, 0)
DataSet == \E k \in DataKeys, v \in DataValues : Call(DataCalls, "set", k, v, 0)
DataGet == \E k \in DataKeys : Call(DataCalls, "get", k, Undefined, 0)
DataEnsure == \E k \in DataKeys : Call(DataCalls, "ensure", k, Num(1), 0)
DataPush == \E k \in DataKeys : Call(DataCalls, "push", k, Arr(<<1>>), 0)
DataUnshift == \E k \in DataKeys : Call(DataCalls, "unshift", k, Num(1), 0)
DataPop == \E k \in DataKeys : Call(DataCalls, "pop", k, Undefined, 0)
DataShift == \E k \in DataKeys : Call(DataCalls, "shift", k, Undefined, 0)
DataRemove == \E k \in DataKeys : Call(DataCalls, "remove", k, Num(1), 0)
DataIncludes == \E k \in DataKeys : Call(DataCalls, "includes", k, Num(1), 0)
DataSome == \E p \in Preds : Call(DataCalls, "some", NoKey, p, 0)
DataEvery == \E p \in Preds : Call(DataCalls, "every", NoKey, p, 0)

NextData ==
  \/ DataOpen
  \/ DataSet
  \/ DataGet
  \/ DataEnsure
  \/ DataPush
  \/ DataUnshift
  \/ DataPop
  \/ DataShift
  \/ DataRemove
  \/ DataIncludes
  \/ DataSome
  \/ DataEvery
  \/ \E s \in Slots : Tick(s)
  \/ \E s \in Slots : Resume(s)
  \/ \E s \in Slots : FsMkdirBase(s)
  \/ \E s \in Slots : FsMkdir(s)
  \/ \E s \in Slots : FsReaddir(s)
  \/ \E s \in Slots : FsReadFile(s)
  \/ \E s \in Slots : FsWriteFile(s)

SpecData == InitData /\ [][NextData]_vars

(***************************************************************************)
(* Steps that the claims speak about.                                      *)
(***************************************************************************)
\* a caller invokes a method in this step
Invoked == calls' = calls + 1

\* an invocation settles in this step (resolves or rejects); last' is its record
Returned ==
  \/ \E s \in Slots : Active(s) /\ ops'[s].name = "idle"
  \/ Invoked /\ \A s \in Slots : Active(s) <=> ops'[s].name # "idle"

\* the method that is invoked in a step that satisfies Invoked
InvokedName ==
  IF \E s \in Slots : ~Active(s) /\ ops'[s].name # "idle"
  THEN ops'[CHOOSE s \in Slots : ~Active(s) /\ ops'[s].name # "idle"].name
  ELSE last'.name

\* the key that is passed in a step that satisfies Invoked
InvokedKey ==
  IF \E s \in Slots : ~Active(s) /\ ops'[s].name # "idle"
  THEN ops'[CHOOSE s \in Slots : ~Active(s) /\ ops'[s].name # "idle"].key
  ELSE last'.key

\* the readiness gate refused the invocation
NotReady(rec) == rec.err = "NotReady" /\ rec.errOp = rec.name

Persistent == ~cacheOnly

(***************************************************************************)
(* C1.  Write convergence: in a persistent store, when set(k, A) and then   *)
(* set(k, B) are invoked, the second before the write of the first has     *)
(* completed, and nothing else writes or deletes k, then once every call   *)
(* has settled and no disk write is in progress the file of k holds the    *)
(* serialization of B, the value of the latest set.                        *)
(***************************************************************************)
C1_WriteConvergence ==
  \A k \in Keys :
    (Persistent /\ AllIdle /\ latest[k] \notin {Undefined, Off})
      => files[k] = stringify(latest[k])

(***************************************************************************)
(* C3.  In a persistent store, at the moment the promise of set(k, v)      *)
(* resolves, the file of k exists and holds the serialization of v or of   *)
(* the value of a set(k, .) invoked later.                                 *)
(***************************************************************************)
C3_SetResolvesWritten ==
  [][(/\ Returned
      /\ Persistent
      /\ last'.name = "set"
      /\ last'.err = ""
      /\ latest'[last'.key] # Off)
       => files'[last'.key] \in {stringify(last'.val), stringify(latest'[last'.key])}]_vars

(***************************************************************************)
(* C4.  Readiness gate, as claimed: every public method other than open    *)
(* that is invoked before an open has completed or after a destroy has     *)
(* completed fails with a NotReady error that names the method, and        *)
(* changes neither the cache, the disk nor the pending writes.             *)
(***************************************************************************)
Refused ==
  /\ Returned
  /\ NotReady(last')
  /\ last'.name = InvokedName
  /\ UNCHANGED <<ready, cache, waiting, baseDir, dir, files>>

C4_GateEveryStore ==
  [][(Invoked /\ InvokedName # "open" /\ gate # "open") => Refused]_vars

(***************************************************************************)
(* C4, amended.  Every public method other than open that is invoked while *)
(* the store is not ready, that is before an open has completed on a store *)
(* that is not cache-only, or after a destroy has completed and before the *)
(* next open completes, fails with a NotReady error that names the method  *)
(* and changes neither the cache, the disk nor the pending writes.  (A     *)
(* cache-only store is ready from its construction.)                       *)
(***************************************************************************)
C4_ReadinessGate ==
  [][(/\ Invoked
      /\ InvokedName # "open"
      /\ gate = "destroyed" \/ (gate = "new" /\ Persistent))
       => Refused]_vars

\* a method was refused after a destroy had completed
C4_Witness == gate = "destroyed" /\ NotReady(last) /\ last.name = "set"

(***************************************************************************)
(* C5.  Destroy: a destroy that is invoked on a ready store and runs with  *)
(* no other operation in flight completes successfully, and then the       *)
(* directory of the store does not exist, no entry file is left and ready  *)
(* is false.                                                               *)
(***************************************************************************)
C5_Destroy ==
  [][(/\ Returned
      /\ last'.name = "destroy"
      /\ last'.alone
      /\ ~NotReady(last'))
       => (last'.err = "" /\ ~dir' /\ files' = NoFiles /\ ~ready')]_vars

(***************************************************************************)
(* C6.  deleteAll: after a deleteAll that was invoked on a ready           *)
(* persistent store and ran with no other operation in flight, count()     *)
(* returns 0 and the directory of the store holds no file.                 *)
(***************************************************************************)
C6_DeleteAll ==
  [][(/\ Returned
      /\ Persistent
      /\ last'.name = "deleteAll"
      /\ last'.alone
      /\ ~NotReady(last'))
       => (last'.err = "" /\ CountNow' = 0 /\ files' = NoFiles)]_vars

(***************************************************************************)
(* C8.  Absence: in a ready store with no operation in flight, get of a    *)
(* key that was never set returns null without an error and has returns    *)
(* false; after a deleteAll that ran alone the same holds of every key,    *)
(* random returns null and fetchAll returns an empty mapping.              *)
(***************************************************************************)
Absent(k) ==
  /\ Answer("get", k).err = ""
  /\ GetNow(k) = Null
  /\ ~HasNow(k)

AfterDeleteAll ==
  /\ ready
  /\ AllIdle
  /\ last.name = "deleteAll"
  /\ last.alone
  /\ last.err = ""

C8_Absence ==
  /\ (ready /\ AllIdle) => \A k \in Keys : latest[k] = Undefined => Absent(k)
  /\ AfterDeleteAll => /\ \A k \in Keys : Absent(k)
                       /\ Answer("random", NoKey).out.v = Null
                       /\ Answer("fetchAll", NoKey).out.ents = <<>>

(***************************************************************************)
(* C9.  ensure on a present key: when has(k) is true, ensure(k, d) run     *)
(* with no other operation in flight returns the value that get(k)         *)
(* returned before, and leaves the cache entry and the file of k as they   *)
(* were.                                                                   *)
(***************************************************************************)
C9_EnsurePresent ==
  [][\A s \in Slots :
       (/\ ops[s].name = "ensure"
        /\ ops'[s].name = "idle"
        /\ ops[s].alone
        /\ ops[s].pre.has)
         => /\ last'.err = ""
            /\ last'.out.v = ops[s].pre.got
            /\ MapGet(cache', ops[s].key) = ops[s].pre.entry
            /\ files'[ops[s].key] = ops[s].pre.file]_vars

(***************************************************************************)
(* C10.  ensure on an absent key: when has(k) is false, ensure(k, d) with  *)
(* a serializable d, run with no other operation in flight, resolves to d, *)
(* a following get(k) returns d and, in a persistent store, the file of k  *)
(* holds the serialization of d.                                           *)
(***************************************************************************)
C10_EnsureAbsent ==
  [][\A s \in Slots, k \in Keys, d \in Values :
       (/\ ops[s].name = "ensure"
        /\ ops[s].key = k
        /\ ops[s].val = d
        /\ ops'[s].name = "idle"
        /\ ops[s].alone
        /\ ~ops[s].pre.has
        /\ Serializable(d))
         => /\ last'.err = ""
            /\ last'.out.v = d
            /\ GetNow(k)' = d
            /\ (Persistent => files'[k] = stringify(d))]_vars

(***************************************************************************)
(* C2.  Round trip: in a ready store with no other operation in flight,    *)
(* whatever happened before, a set(k, v) with a serializable v that ran    *)
(* alone has resolved, and a get(k) that follows it returns v, with the    *)
(* cache and without it.                                                   *)
(***************************************************************************)
C2_RoundTrip ==
  (/\ AllIdle
   /\ last.name = "set"
   /\ last.alone
   /\ ~NotReady(last)
   /\ Serializable(last.val))
    => /\ last.err = ""
       /\ Answer("get", last.key).err = ""
       /\ GetNow(last.key) = last.val

(***************************************************************************)
(* C7.  Delete: after a delete(k) that was invoked on a ready store and    *)
(* ran with no other operation in flight, has(k) is false and get(k)       *)
(* returns null; a delete(k) of a key that neither the cache nor the       *)
(* directory holds completes without an error and changes nothing.         *)
(***************************************************************************)
C7_Delete ==
  [][\A k \in Keys :
       /\ (/\ Returned
           /\ last'.name = "delete"
           /\ last'.key = k
           /\ last'.alone
           /\ ~NotReady(last'))
            => /\ last'.err = ""
               /\ ~HasNow(k)'
               /\ GetNow(k)' = Null
       /\ (/\ Invoked
           /\ InvokedName = "delete"
           /\ InvokedKey = k
           /\ ready
           /\ AllIdle
           /\ ~MapHas(cache, k)
           /\ files[k] = NoFile)
            => /\ Returned
               /\ last'.err = ""
               /\ UNCHANGED <<ready, cache, waiting, baseDir, dir, files>>]_vars

(***************************************************************************)
(* The file a method reaches for a key: this.filepath(key) for keys made   *)
(* of letters, dashes, dots, spaces and the path separator, under the two  *)
(* syntax checks of the sources.                                           *)
(***************************************************************************)
MaxKeyLen == 4
KeyCalls == 1

Alphabet == {"a", "-", "/", ".", " "}
ProbeKeys == UNION {[1..n -> Alphabet] : n \in 1..MaxKeyLen}
KeyFns == {"set", "get", "has", "delete"}

\* utils.validateKey of src/unnamed/part_002: no white space, 4 to 64 characters
validateKeyGeneral(key) ==
  /\ Len(key) >= 1
  /\ \A i \in 1..Len(key) : key[i] # " "
  /\ Len(key) > 3
  /\ Len(key) < 65

\* the segments of a path: the text between the separators
RECURSIVE Segments(_)
Segments(text) ==
  IF text = <<>> THEN << <<>> >>
  ELSE LET rest == Segments(Tail(text))
       IN IF Head(text) = "/" THEN << <<>> >> \o rest
          ELSE << <<Head(text)>> \o rest[1] >> \o Tail(rest)

\* path.join(base, ...): empty and "." segments are dropped, ".." removes
\* the segment before it
RECURSIVE Join(_, _)
Join(base, segs) ==
  IF segs = <<>> THEN base
  ELSE IF Head(segs) \in {<<>>, <<".">>} THEN Join(base, Tail(segs))
  ELSE IF Head(segs) = <<".", ".">>
  THEN Join(IF base = <<>> THEN base ELSE SubSeq(base, 1, Len(base) - 1), Tail(segs))
  ELSE Join(Append(base, Head(segs)), Tail(segs))

\* this.path: path.join(Ghomap.path, this.name), as segments
StorePath == << <<"d", "a", "t", "a">>, <<"d", "e", "f", "a", "u", "l", "t">> >>

\* this.filepath(key): path.join(this.path, key) + ".json"; path.join keeps
\* a separator at the end of the key
filepath(key) ==
  LET joined == Join(StorePath, Segments(key))
  IN IF joined = <<>> \/ key[Len(key)] = "/" THEN Append(joined, <<".json">>)
     ELSE [joined EXCEPT ![Len(joined)] = joined[Len(joined)] \o <<".json">>]

\* the file <key>.json directly inside the directory of the store
Own(key) == Append(StorePath, key \o <<".json">>)

\* the paths the method passes to fs and fs/promises for the key, on a ready
\* store; valid is the outcome of utils.validateKey(key)
Touched(fn, key, valid) ==
  CASE fn = "set" -> IF valid /\ ~cacheOnly THEN {filepath(key)} ELSE {}
    [] fn = "get" -> IF valid /\ ~cacheUsed THEN {filepath(key)} ELSE {}
    [] fn = "has" -> IF ~cacheUsed THEN {filepath(key)} ELSE {}
    [] fn = "delete" -> IF ~cacheOnly THEN {filepath(key)} ELSE {}

\* a caller passes the key to the method of a ready store; one call is examined
ProbeKey ==
  /\ ready
  /\ AllIdle
  /\ probe = NoProbe
  /\ \E fn \in KeyFns, key \in ProbeKeys :
       probe' = [fn |-> fn, key |-> key,
                 accepted |-> validateKey(key),
                 touched |-> Touched(fn, key, validateKey(key)),
                 acceptedGeneral |-> validateKeyGeneral(key),
                 touchedGeneral |-> Touched(fn, key, validateKeyGeneral(key))]
  /\ UNCHANGED <<useCache, cacheOnly, fetchAllOnStart, ready, cache, waiting, baseDir,
                 dir, files, ops, last, calls, prev, latest, gate>>

KeyOpen == Call(KeyCalls, "open", NoKey, Undefined, 0)

NextKey ==
  \/ KeyOpen
  \/ ProbeKey
  \/ \E s \in Slots : Tick(s)
  \/ \E s \in Slots : Resume(s)
  \/ \E s \in Slots : FsMkdirBase(s)
  \/ \E s \in Slots : FsMkdir(s)
  \/ \E s \in Slots : FsReaddir(s)
  \/ \E s \in Slots : FsReadFile(s)

SpecKey == Init /\ [][NextKey]_vars

(***************************************************************************)
(* C11.  Array type guard: push, unshift, pop, shift, remove and includes, *)
(* invoked on a ready store with no other operation running, for a key     *)
(* whose current value is not an array (the key may be absent), fail with  *)
(* TargetTypeError; no step of the operation changes the cache, the        *)
(* pending writes or the files.                                            *)
(***************************************************************************)
ArrayOps == {"push", "unshift", "pop", "shift", "remove", "includes"}

\* the value of the key was not an array when the operation was invoked
NotArrayAt(pre) ==
  IF cacheUsed THEN pre.entry.t # "arr"
  ELSE pre.file = NoFile \/ (parse(pre.file).ok /\ parse(pre.file).v.t # "arr")

C11_TypeGuard ==
  [][/\ (Invoked /\ InvokedName \in ArrayOps) => UNCHANGED <<cache, waiting, files>>
     /\ \A s \in Slots :
          (/\ ops[s].name \in ArrayOps
           /\ ops[s].alone
           /\ ~Invoked
           /\ NotArrayAt(ops[s].pre))
            => /\ UNCHANGED <<cache, waiting, files>>
               /\ ops'[s].name = "idle" => last'.err = "TargetTypeError"]_vars

C11_Witness ==
  /\ last.name \in ArrayOps
  /\ last.alone
  /\ last.err = "TargetTypeError"
  /\ cache = <<>>
  /\ \A k \in Keys : waiting[k] = Undefined

(***************************************************************************)
(* C12.  Array mutation persistence: for a key k that holds the array a    *)
(* when the helper is invoked on a ready store with no other operation     *)
(* running, with or without the cache: push(k, items) resolves to the      *)
(* items and get(k) then gives a followed by the items; unshift(k, x)      *)
(* resolves to x and get(k) gives x followed by a; pop(k) and shift(k) on  *)
(* a non-empty a resolve to its last (first) element and get(k) gives a    *)
(* without it; includes(k, x) resolves to true exactly when x is in a.     *)
(***************************************************************************)
\* the array the key held when the operation was invoked
ArrayAt(pre) == IF cacheUsed THEN pre.entry ELSE parse(pre.file).v

HeldArray(pre) ==
  IF cacheUsed THEN IsArray(pre.entry)
  ELSE pre.file # NoFile /\ parse(pre.file).ok /\ IsArray(parse(pre.file).v)

\* what the helper has to resolve to and what get has to give after it
Expected(name, a, val) ==
  CASE name = "push" -> [out |-> val, now |-> Arr(a \o val.a)]
    [] name = "unshift" -> [out |-> val, now |-> Arr(<<val.n>> \o a)]
    [] name = "pop" -> [out |-> Num(a[Len(a)]), now |-> Arr(SubSeq(a, 1, Len(a) - 1))]
    [] name = "shift" -> [out |-> Num(a[1]), now |-> Arr(Tail(a))]
    [] name = "includes" -> [out |-> Bool(\E i \in 1..Len(a) : a[i] = val.n), now |-> Arr(a)]

C12_ArrayPersistence ==
  [][\A s \in Slots, k \in Keys :
       (/\ ops[s].name \in ArrayOps \ {"remove"}
        /\ ops[s].key = k
        /\ ops'[s].name = "idle"
        /\ ops[s].alone
        /\ ~Invoked
        /\ HeldArray(ops[s].pre)
        /\ ops[s].name \in {"pop", "shift"} => Len(ArrayAt(ops[s].pre).a) > 0)
         => LET e == Expected(ops[s].name, ArrayAt(ops[s].pre).a, ops[s].val)
            IN /\ last'.err = ""
               /\ last'.out.v = e.out
               /\ GetNow(k)' = e.now]_vars

(***************************************************************************)
(* C13.  every(p), invoked on a ready store with no other operation        *)
(* running, resolves to true exactly when p is truthy for every entry of   *)
(* the store (to true on an empty store), whatever some(p) gives.          *)
(***************************************************************************)
\* the entries of the store: what some and every iterate
Entries == IF cacheUsed THEN cache ELSE Answer("fetchAll", NoKey).out.ents

C13_Every ==
  (/\ AllIdle
   /\ ready
   /\ last.name = "every"
   /\ last.alone
   /\ last.err = ""
   /\ Answer("fetchAll", NoKey).err = "")
    => last.out.v = Bool(\A i \in 1..Len(Entries) : Holds(last.val, Entries[i].val))

(***************************************************************************)
(* C14.  With the cache in use, a get(k) invoked right after a set(k, v)   *)
(* that passed the readiness gate, with no invocation in between, returns  *)
(* v, whether or not the set has settled and whether or not its write      *)
(* has reached the file.                                                   *)
(***************************************************************************)
\* a get of the key of the set that was the invocation made last
GetAfterSet(k, v) ==
  /\ Invoked
  /\ InvokedName = "get"
  /\ InvokedKey = k
  /\ cacheUsed
  /\ prev.name = "set"
  /\ prev.key = k
  /\ prev.val = v

\* the get settles in the call and gives v
Gives(v) ==
  /\ Returned
  /\ last'.name = "get"
  /\ last'.err = ""
  /\ last'.out.v = v

C14_GetAfterSet ==
  [][\A k \in Keys, v \in Values : GetAfterSet(k, v) => Gives(v)]_vars

\* C14 where, in addition, no operation was running when the set was
\* invoked: the get returns v
C14_GetAfterSetAlone ==
  [][\A k \in Keys, v \in Values : (GetAfterSet(k, v) /\ prev.alone) => Gives(v)]_vars

\* a get returned the value of a set that is still waiting for its write
C14_Witness ==
  /\ cacheUsed
  /\ last.name = "get"
  /\ last.err = ""
  /\ \E s \in Slots :
       /\ ops[s].name = "set"
       /\ ops[s].key = last.key
       /\ ops[s].val = last.out.v
       /\ ops[s].wait = "io"
       /\ files[last.key] # stringify(last.out.v)
  /\ \A s \in Slots : ops[s].name \in {"set", "idle"}

(***************************************************************************)
(* C15.  Cache/disk agreement: in a persistent store with the cache in use *)
(* and fetchAllOnStart, when the store is ready, no operation is running   *)
(* and no write is in progress, every key is either absent from the cache  *)
(* and from the directory, or present in both with the file holding the    *)
(* serialization of the cached value.                                      *)
(***************************************************************************)
Agrees(k) ==
  IF MapHas(cache, k)
  THEN /\ Serializable(MapGet(cache, k))
       /\ files[k] = stringify(MapGet(cache, k))
  ELSE files[k] = NoFile

C15_CacheDiskAgreement ==
  (Persistent /\ useCache /\ fetchAllOnStart /\ ready /\ AllIdle)
    => \A k \in Keys : Agrees(k)

(***************************************************************************)
(* C16.  open is idempotent: when open is invoked on a ready store with no *)
(* operation running, no step of it makes the store not ready or changes   *)
(* what get(k), has(k) and count() answer, for every key k.                *)
(***************************************************************************)
\* a step of an open that was invoked on a ready store with nothing running
ReopenStep ==
  \/ Invoked /\ InvokedName = "open" /\ AllIdle /\ ready
  \/ /\ ~Invoked
     /\ ready
     /\ \E s \in Slots : ops[s].name = "open" /\ ops[s].alone

C16_OpenIdempotent ==
  [][ReopenStep
       => /\ ready'
          /\ CountNow' = CountNow
          /\ \A k \in Keys : /\ GetNow(k)' = GetNow(k)
                             /\ HasNow(k)' = HasNow(k)]_vars

(***************************************************************************)
(* C17.  Corrupt entry: without the cache, on a ready store with no        *)
(* operation running, get(k) for a key whose file exists and is not JSON   *)
(* resolves to null, and fetchAll resolves to the entries of the other     *)
(* files, leaving that one out.                                            *)
(***************************************************************************)
\* the file of the key exists and JSON.parse throws on it
Unparsable(k) == files[k] # NoFile /\ ~parse(files[k]).ok

\* the entries of the files that parse to a value that is not null
Parsed ==
  {[key |-> k, val |-> parse(files[k]).v] :
     k \in {j \in Keys : /\ files[j] # NoFile
                         /\ parse(files[j]).ok
                         /\ parse(files[j]).v # Null}}

C17_CorruptEntry ==
  (ready /\ AllIdle /\ ~cacheUsed)
    => \A k \in Keys :
         Unparsable(k)
           => /\ Answer("get", k).err = ""
              /\ GetNow(k) = Null
              /\ Answer("fetchAll", NoKey).err = ""
              /\ {Answer("fetchAll", NoKey).out.ents[i] :
                    i \in 1..Len(Answer("fetchAll", NoKey).out.ents)} = Parsed

(***************************************************************************)
(* C18.  Startup scan: when the first open of a persistent store, invoked  *)
(* with no other operation running, settles, it has resolved, ready is     *)
(* true and the directory exists; with fetchAllOnStart and useCache both   *)
(* true the cache holds exactly the entries of the files that parse to a   *)
(* value that is not null and the callback was invoked exactly once for    *)
(* each of them (files that do not parse or hold null are skipped); with   *)
(* either flag false the cache is unchanged.                               *)
(***************************************************************************)
\* the entries of a sequence, as a set
Range(seq) == {seq[i] : i \in 1..Len(seq)}

\* the first open of a persistent store settles in this step
FirstOpenSettles ==
  /\ Persistent
  /\ gate = "new"
  /\ ~Invoked
  /\ \E s \in Slots : /\ ops[s].name = "open"
                      /\ ops[s].alone
                      /\ ops'[s].name = "idle"

C18_StartupScan ==
  [][FirstOpenSettles
       => /\ last'.err = ""
          /\ ready'
          /\ dir'
          /\ IF fetchAllOnStart /\ useCache
             THEN /\ Range(cache') = Parsed
                  /\ Len(cache') = Cardinality(Parsed)
                  /\ Range(last'.out.ents) = Parsed
                  /\ Len(last'.out.ents) = Cardinality(Parsed)
             ELSE cache' = cache]_vars

(***************************************************************************)
(* C20.  Invalid key: set, get, ensure and the array helpers, called on a  *)
(* ready store with a key that fails the syntax check, fail with an        *)
(* InvalidKey error in the call itself, with no change to the cache, the   *)
(* pending writes, the files or the directories.                           *)
(***************************************************************************)
KeyChecked == {"set", "get", "ensure"} \cup ArrayOps

C20_InvalidKey ==
  [][(/\ Invoked
      /\ InvokedName \in KeyChecked
      /\ ~validateKey(InvokedKey)
      /\ ready)
       => /\ Returned
          /\ last'.name = InvokedName
          /\ last'.key = InvokedKey
          /\ last'.err = "InvalidKey"
          /\ UNCHANGED <<ready, cache, waiting, baseDir, dir, files>>]_vars

C20_Witness ==
  /\ ready
  /\ last.name \in ArrayOps \cup {"ensure"}
  /\ last.key = BadKey
  /\ last.err = "InvalidKey"

(***************************************************************************)
(* C19.  Store isolation: a key that a syntax check of the sources accepts *)
(* contains neither a path separator nor the traversal sequence "..", and  *)
(* the only file set, get, has and delete pass to the file system for a    *)
(* key is <key>.json directly inside the directory of the store.           *)
(***************************************************************************)
HasSeparator(key) == \E i \in 1..Len(key) : key[i] = "/"
HasTraversal(key) == \E i \in 1..Len(Segments(key)) : Segments(key)[i] = <<".", ".">>

C19_StoreIsolation ==
  probe.fn # "none"
    => /\ (probe.accepted \/ probe.acceptedGeneral)
            => ~HasSeparator(probe.key) /\ ~HasTraversal(probe.key)
       /\ \A p \in probe.touched \cup probe.touchedGeneral :
            /\ p = Own(probe.key)
            /\ ~HasSeparator(probe.key)
            /\ ~HasTraversal(probe.key)

(***************************************************************************)
(* C21.  Not serializable: set(k, v) invoked on a ready store with a value *)
(* that JSON.stringify throws on fails with a NotSerializable error in the *)
(* call, and the cache entry, the file and the pending write of k are      *)
(* what they were before the call.                                         *)
(***************************************************************************)
\* the value that is passed in a step that satisfies Invoked
InvokedVal ==
  IF \E s \in Slots : ~Active(s) /\ ops'[s].name # "idle"
  THEN ops'[CHOOSE s \in Slots : ~Active(s) /\ ops'[s].name # "idle"].val
  ELSE last'.val

C21_NotSerializable ==
  [][\A k \in Keys :
       (/\ Invoked
        /\ InvokedName = "set"
        /\ InvokedKey = k
        /\ ~Serializable(InvokedVal)
        /\ ready)
         => /\ Returned
            /\ last'.name = "set"
            /\ last'.err = "NotSerializable"
            /\ MapHas(cache', k) = MapHas(cache, k)
            /\ MapGet(cache', k) = MapGet(cache, k)
            /\ files'[k] = files[k]
            /\ waiting'[k] = waiting[k]]_vars

(***************************************************************************)
(* The cache-only store, over a directory that is not there, that is empty *)
(* or that holds a file an earlier persistent store of the same name left. *)
(***************************************************************************)
MemCalls == 3

MemDisks ==
  {[base |-> FALSE, dir |-> FALSE, files |-> NoFiles],
   [base |-> TRUE, dir |-> TRUE, files |-> NoFiles],
   [base |-> TRUE, dir |-> TRUE, files |-> [NoFiles EXCEPT ![KeyA] = stringify(Num(1))]]}

MemOptions == {o \in Options : o.cacheOnly}

InitMem == Construct(MemOptions, MemDisks)

MemOpen == Call(MemCalls, "open", NoKey, Undefined, 0)
MemSet == \E k \in Keys, v \in Values \cup {Arr(<<1>>)} : Call(MemCalls, "set", k, v, 0)
MemDelete == \E k \in Keys : Call(MemCalls, "delete", k, Undefined, 0)
MemDeleteAll == Call(MemCalls, "deleteAll", NoKey, Undefined, 0)
MemDestroy == Call(MemCalls, "destroy", NoKey, Undefined, 0)
MemEnsure == \E k \in Keys : Call(MemCalls, "ensure", k, Num(1), 0)
MemPush == \E k \in Keys : Call(MemCalls, "push", k, Arr(<<1>>), 0)
MemPop == \E k \in Keys : Call(MemCalls, "pop", k, Undefined, 0)
MemSome == \E p \in Preds : Call(MemCalls, "some", NoKey, p, 0)
MemFetchAll == Call(MemCalls, "fetchAll", NoKey, Undefined, 0)
MemFetchKeys == Call(MemCalls, "fetchKeys", NoKey, Undefined, 0)

NextMem ==
  \/ MemOpen
  \/ MemSet
  \/ MemDelete
  \/ MemDeleteAll
  \/ MemDestroy
  \/ MemEnsure
  \/ MemPush
  \/ MemPop
  \/ MemSome
  \/ MemFetchAll
  \/ MemFetchKeys
  \/ \E s \in Slots : Tick(s)
  \/ \E s \in Slots : Resume(s)
  \/ \E s \in Slots : FsRmdir(s)

SpecMem == InitMem /\ [][NextMem]_vars

(***************************************************************************)
(* C22.  Cache-only mode: in a cache-only store no step of any operation   *)
(* (open, set, delete, deleteAll, destroy, ensure, array helpers, bulk     *)
(* scans, fetchAll, fetchKeys) creates, changes or removes a file or a     *)
(* directory.                                                              *)
(***************************************************************************)
C22_CacheOnly ==
  [][cacheOnly => UNCHANGED <<baseDir, dir, files>>]_vars

(***************************************************************************)
(* C23.  Mutual exclusion of writes: in every reachable state, for every   *)
(* key, at most one operation has a fsp.writeFile for the file of the key  *)
(* in flight (issued and not yet delivered back to it).                    *)
(***************************************************************************)
\* the operations that wait for a writeFile of the file of the key
Writers(k) ==
  {s \in Slots : /\ ops[s].wait = "io"
                 /\ ops[s].io.kind = "writeFile"
                 /\ ops[s].io.key = k}

C23_OneWritePerKey == \A k \in Keys : Cardinality(Writers(k)) <= 1

\* a set arrived while the write of another set of the key is in flight
C23_Witness ==
  \E k \in Keys, s \in Slots :
    /\ s \in Writers(k)
    /\ ops[s].io.stage = "req"
    /\ ops[s].name = "set"
    /\ waiting[k] # ops[s].val
    /\ last.name = "set"
    /\ last.key = k
    /\ last.err = ""

(***************************************************************************)
(* C24.  Catch-up step: a step that ends the fsp.writeFile of the key (the *)
(* write was performed and its completion is delivered) either starts a    *)
(* new writeFile of the key, which writes the pending value, or removes    *)
(* the key from the pending writes.                                        *)
(***************************************************************************)
\* the writeFile of the key was performed and awaits delivery
Written(k) ==
  /\ Writers(k) # {}
  /\ \A s \in Writers(k) : ops[s].io.stage = "ok"

C24_CatchUp ==
  [][\A k \in Keys :
       (Written(k) /\ Writers(k)' # Writers(k))
         => \/ waiting'[k] = Undefined
            \/ \E s \in Writers(k)' : ops'[s].io.text = stringify(waiting[k])]_vars

(***************************************************************************)
(* Scheduling.  The event loop runs every queued continuation, and every   *)
(* request made to the file system is performed and its completion         *)
(* delivered: each call in flight keeps taking its steps.                  *)
(***************************************************************************)
Progress(s) ==
  \/ Tick(s)
  \/ Resume(s)
  \/ FsMkdirBase(s)
  \/ FsMkdir(s)
  \/ FsReaddir(s)
  \/ FsReadFile(s)
  \/ FsWriteFile(s)
  \/ FsUnlink(s)
  \/ FsRmdir(s)

\* the calls that start, end or disturb a write, and the steps of the calls
NextLive ==
  \/ CallOpen
  \/ CallSet
  \/ CallDelete
  \/ CallDestroy
  \/ \E s \in Slots : Progress(s)

SpecLive == Init /\ [][NextLive]_vars /\ \A s \in Slots : WF_vars(Progress(s))

(***************************************************************************)
(* C25.  Every set that is invoked eventually settles (resolves or         *)
(* rejects) when every request to the file system completes; and a set     *)
(* invoked on a ready store while a writeFile of its key is in flight      *)
(* replaces the pending value, issues no request to the file system,       *)
(* leaves the files as they are, and resolves at its next continuation.    *)
(***************************************************************************)
\* the invoked call is a set of the key that finds a writeFile of it in flight
Arrives(k) ==
  /\ Invoked
  /\ InvokedName = "set"
  /\ InvokedKey = k
  /\ ready
  /\ Writers(k) # {}

C25_SetSettles ==
  /\ \A s \in Slots : (ops[s].name = "set") ~> (ops[s].name = "idle")
  /\ [][/\ \A k \in Keys :
             Arrives(k)
               => /\ waiting'[k] = InvokedVal
                  /\ files' = files
                  /\ Writers(k)' = Writers(k)
                  /\ \A s \in Slots :
                       (~Active(s) /\ ops'[s].name # "idle")
                         => ops'[s].wait = "micro"
        /\ \A s \in Slots :
             (/\ ops[s].name = "set"
              /\ ops[s].wait = "micro"
              /\ ~Invoked
              /\ ops'[s] # ops[s])
               => /\ ops'[s].name = "idle"
                  /\ last'.name = "set"
                  /\ last'.err = ""]_vars

\* both the set that wrote and the set that arrived during its write resolved
C25_Witness ==
  /\ AllIdle
  /\ last.name = "set"
  /\ last.err = ""
  /\ ~last.alone
  /\ files[last.key] = stringify(last.val)
  /\ waiting[last.key] \notin {Undefined, last.val}

(***************************************************************************)
(* C26.  fetchAll is disk-authoritative: a fetchAll that ran alone on a    *)
(* ready persistent store resolves with a map that holds, for every file   *)
(* of the directory whose content parses to a value other than null, the   *)
(* key with the value parsed from the file, whatever the cache holds.      *)
(***************************************************************************)
\* the file of the key parses to a value other than null
OnDisk(k) ==
  /\ existsSync(files, k)
  /\ parse(files[k]).ok
  /\ parse(files[k]).v # Null

C26_FetchAllFromDisk ==
  (/\ AllIdle
   /\ last.name = "fetchAll"
   /\ last.alone
   /\ ready
   /\ ~cacheOnly)
    => /\ last.err = ""
       /\ \A k \in Keys :
            OnDisk(k) => /\ MapHas(last.out.ents, k)
                         /\ MapGet(last.out.ents, k) = parse(files[k]).v

(***************************************************************************)
(* Scenario: a persistent store over a directory that holds a name which   *)
(* is not the file of a key.                                               *)
(***************************************************************************)
DirCalls == 3

DirDisks ==
  {[base |-> TRUE, dir |-> TRUE, files |-> [NoFiles EXCEPT ![Stray] = Corrupt]],
   [base |-> TRUE, dir |-> TRUE,
    files |-> [NoFiles EXCEPT ![KeyA] = stringify(Num(1)), ![Stray] = Corrupt]]}

DirOptions == {o \in Options : ~o.cacheOnly}

InitDir == Construct(DirOptions, DirDisks)

DirOpen == Call(DirCalls, "open", NoKey, Undefined, 0)
DirSet == \E k \in Keys : Call(DirCalls, "set", k, Num(1), 0)
DirDelete == \E k \in Keys : Call(DirCalls, "delete", k, Undefined, 0)
DirCount == Call(DirCalls, "count", NoKey, Undefined, 0)
DirFetchKeys == Call(DirCalls, "fetchKeys", NoKey, Undefined, 0)

NextDir ==
  \/ DirOpen
  \/ DirSet
  \/ DirDelete
  \/ DirCount
  \/ DirFetchKeys
  \/ \E s \in Slots : Tick(s)
  \/ \E s \in Slots : Resume(s)
  \/ \E s \in Slots : FsReaddir(s)
  \/ \E s \in Slots : FsReadFile(s)
  \/ \E s \in Slots : FsWriteFile(s)
  \/ \E s \in Slots : FsUnlink(s)

SpecDir == InitDir /\ [][NextDir]_vars

(***************************************************************************)
(* C27.  A count() that ran alone on a ready store resolves with the       *)
(* number of entries of the cache when the cache is used, and otherwise    *)
(* with the number of keys fetchKeys() returns for the same directory.     *)
(***************************************************************************)
C27_Count ==
  (/\ AllIdle
   /\ last.name = "count"
   /\ last.alone
   /\ ready)
    => /\ last.err = ""
       /\ last.out.v = Num(IF cacheUsed THEN Len(cache)
                           ELSE Len(Answer("fetchKeys", NoKey).out.keys))

(***************************************************************************)
(* C28.  A random() that ran alone on a ready store resolves with null     *)
(* exactly when the store has no key (the cache has none when the cache is *)
(* used, fetchKeys() returns none otherwise); with at least one key it     *)
(* resolves with the current value of one of the keys.                     *)
(***************************************************************************)
\* the keys random() draws from
CurrentKeys ==
  IF cacheUsed THEN MapKeys(cache) ELSE Answer("fetchKeys", NoKey).out.keys

C28_Random ==
  (/\ AllIdle
   /\ last.name = "random"
   /\ last.alone
   /\ ready)
    => /\ last.err = ""
       /\ (last.out.v = Null) <=> (Len(CurrentKeys) = 0)
       /\ Len(CurrentKeys) > 0
            => \E i \in 1..Len(CurrentKeys) : last.out.v = GetNow(CurrentKeys[i])

(***************************************************************************)
(* Scenario: a store over a directory that holds the files of two keys,    *)
(* scanned by deleteAll while other calls delete and set entries.          *)
(***************************************************************************)
ScanCalls == 3

ScanDisks ==
  {[base |-> TRUE, dir |-> TRUE,
    files |-> [NoFiles EXCEPT ![KeyA] = stringify(Num(1)),
                              ![KeyB] = stringify(Num(1))]]}

InitScan == Construct(Options, ScanDisks)

ScanOpen == Call(ScanCalls, "open", NoKey, Undefined, 0)
ScanSet == \E k \in Keys : Call(ScanCalls, "set", k, Num(0), 0)
ScanDelete == \E k \in Keys : Call(ScanCalls, "delete", k, Undefined, 0)
ScanDeleteAll == Call(ScanCalls, "deleteAll", NoKey, Undefined, 0)

NextScan ==
  \/ ScanOpen
  \/ ScanSet
  \/ ScanDelete
  \/ ScanDeleteAll
  \/ \E s \in Slots : Tick(s)
  \/ \E s \in Slots : Resume(s)
  \/ \E s \in Slots : FsReaddir(s)
  \/ \E s \in Slots : FsReadFile(s)
  \/ \E s \in Slots : FsWriteFile(s)
  \/ \E s \in Slots : FsUnlink(s)

SpecScan == InitScan /\ [][NextScan]_vars

(***************************************************************************)
(* C29.  Snapshot iteration.  A scan (the forEach of a deleteAll or of a   *)
(* destroy) walks the entries it copied when it started (the cache as it   *)
(* was then, when the cache is used); the copy never changes while the     *)
(* scan runs, whatever its visitor or another call does to the store; the  *)
(* scan has at most one visitor in flight, the visitor of entry i; i never *)
(* goes back and passes no entry whose visitor had something to delete;    *)
(* and the scan ends only after the visitor of the last entry.  A visitor  *)
(* that finds no file returns at once, so that a step may pass several     *)
(* entries: these are the entries that hold no file after the step.        *)
(* C29_Snapshot states the last part of every scan, C29_SnapshotResolved   *)
(* of the scans that did not end by a rejection.                           *)
(***************************************************************************)
\* the position of the forEach frame of an operation, 0 when it has none
ScanAt(op) ==
  IF \E j \in 1..Len(op.stack) : op.stack[j].fn = "forEach"
  THEN CHOOSE j \in 1..Len(op.stack) : op.stack[j].fn = "forEach"
  ELSE 0

\* the operation is in the loop of forEach
Scanning(op) ==
  /\ ScanAt(op) # 0
  /\ op.stack[ScanAt(op)].pc \in {"loop", "next"}

Scan(op) == op.stack[ScanAt(op)]

\* the visitors in flight: the calls of delete made by the loop
Visitors(op) ==
  {j \in 1..Len(op.stack) : j > ScanAt(op) /\ op.stack[j].fn = "delete"}

\* after the step nothing is left for delete(key) to remove
Gone(k) == IF cacheOnly THEN ~MapHas(cache', k) ELSE files'[k] = NoFile

\* the entries from the from-th to the to-th were visited in the step
Passed(ents, from, to) == \A j \in from..to : Gone(ents[j].key)

ScanStarts(s) ==
  (~Scanning(ops[s]) /\ Scanning(ops'[s]))
    => /\ Passed(Scan(ops'[s]).ents, 1, Scan(ops'[s]).i - 1)
       /\ cacheUsed => Scan(ops'[s]).ents = cache

ScanKeeps(s) ==
  (Scanning(ops[s]) /\ Scanning(ops'[s]))
    => /\ Scan(ops'[s]).ents = Scan(ops[s]).ents
       /\ Scan(ops'[s]).i >= Scan(ops[s]).i
       /\ Passed(Scan(ops[s]).ents, Scan(ops[s]).i + 1, Scan(ops'[s]).i - 1)

ScanVisits(s) ==
  Scanning(ops'[s])
    => /\ Scan(ops'[s]).i \in 1..Len(Scan(ops'[s]).ents)
       /\ Cardinality(Visitors(ops'[s])) <= 1
       /\ \A j \in Visitors(ops'[s]) :
            /\ j = ScanAt(ops'[s]) + 1
            /\ ops'[s].stack[j].key = Scan(ops'[s]).ents[Scan(ops'[s]).i].key

ScanEnds(s) == Scanning(ops[s]) /\ ~Scanning(ops'[s])

\* the scan ended by a rejection of the call
ScanRejected(s) == ops'[s].name = "idle" /\ last'.err # ""

\* every entry after the one whose visitor was in flight was visited
ScanComplete(s) ==
  Passed(Scan(ops[s]).ents, Scan(ops[s]).i + 1, Len(Scan(ops[s]).ents))

C30_ErrorNamesOperation ==
  (last.name \in ArrayOps /\ last.err = "TargetTypeError")
    => last.errOp = last.name

(***************************************************************************)
(* C31.  remove(k, item), invoked on a ready store with no other operation *)
(* running for a key that holds the array a, with or without the cache:    *)
(* when item is in a it resolves to item and get(k) then gives a without   *)
(* the first occurrence of item; when item is not in a it resolves to null *)
(* and get(k) gives a.                                                     *)
(***************************************************************************)
\* what remove has to resolve to and what get has to give after it
ExpectedRemove(a, item) ==
  IF IndexOf(a, item.n) # 0
  THEN [out |-> item, now |-> Arr(Splice(a, IndexOf(a, item.n)))]
  ELSE [out |-> Null, now |-> Arr(a)]

C31_Remove ==
  [][\A s \in Slots, k \in Keys :
       (/\ ops[s].name = "remove"
        /\ ops[s].key = k
        /\ ops'[s].name = "idle"
        /\ ops[s].alone
        /\ ~Invoked
        /\ HeldArray(ops[s].pre))
         => LET e == ExpectedRemove(ArrayAt(ops[s].pre).a, ops[s].val)
            IN /\ last'.err = ""
               /\ last'.out.v = e.out
               /\ GetNow(k)' = e.now]_vars

(***************************************************************************)
(* Scenario of the concurrent ensures: a persistent store, a set that is   *)
(* rejected or stored, and calls of ensure with two defaults.              *)
(***************************************************************************)
EnsureCalls == 4

EnsureDefaults == {Num(1), Arr(<<1>>)}

InitEnsure == Construct(DataOptions, InitDisks)

EnsureOpen == Call(EnsureCalls, "open", NoKey, Undefined, 0)
EnsureSet == \E k \in Keys : Call(EnsureCalls, "set", k, Circular, 0)
EnsureEnsure == \E k \in Keys, d \in EnsureDefaults : Call(EnsureCalls, "ensure", k, d, 0)

NextEnsure ==
  \/ EnsureOpen
  \/ EnsureSet
  \/ EnsureEnsure
  \/ \E s \in Slots : Tick(s)
  \/ \E s \in Slots : Resume(s)
  \/ \E s \in Slots : FsMkdirBase(s)
  \/ \E s \in Slots : FsMkdir(s)
  \/ \E s \in Slots : FsReaddir(s)
  \/ \E s \in Slots : FsReadFile(s)
  \/ \E s \in Slots : FsWriteFile(s)

SpecEnsure == InitEnsure /\ [][NextEnsure]_vars

\* ensure(k, .) runs in slot s, invoked while has(k) was false
EnsuresAbsent(s, k) ==
  /\ ops[s].name = "ensure"
  /\ ops[s].key = k
  /\ ~ops[s].pre.has

\* the ensure of slot s is the second of two overlapping ensures of k to
\* settle: the call that settled last is the other one, nothing else runs
SecondEnsure(s, k) ==
  /\ EnsuresAbsent(s, k)
  /\ ~ops[s].alone
  /\ \A t \in Slots \ {s} : ~Active(t)
  /\ last.name = "ensure"
  /\ last.key = k
  /\ ~last.alone
  /\ ~last.pre.has
  /\ last.err = ""

(***************************************************************************)
(* C32.  Two calls ensure(k, d1) and ensure(k, d2) that overlap on an      *)
(* absent key of a persistent store: each resolves to d1 or d2, and when   *)
(* the second of them has settled the file of k holds the serialization of *)
(* d1 or of d2.                                                            *)
(***************************************************************************)
C32_ConcurrentEnsure ==
  [][\A s \in Slots, k \in Keys :
       /\ (/\ EnsuresAbsent(s, k)
           /\ \E t \in Slots \ {s} : EnsuresAbsent(t, k)
           /\ ops'[s].name = "idle"
           /\ ~Invoked)
            => /\ last'.err = ""
               /\ last'.out.v \in {ops[t].val : t \in Slots}
       /\ (/\ SecondEnsure(s, k)
           /\ ops'[s].name = "idle"
           /\ ~Invoked)
            => /\ last'.err = ""
               /\ last'.out.v \in {ops[s].val, last.val}
               /\ files'[k] \in {stringify(ops[s].val), stringify(last.val)}]_vars

\* deleteAll runs in slot s and is rejected in the step: the deletion of the
\* entry the loop of forEach is at failed
DeleteAllFails(s) ==
  /\ ops[s].name = "deleteAll"
  /\ Scanning(ops[s])
  /\ ops'[s].name = "idle"
  /\ last'.err # ""
  /\ ~Invoked

\* a step of the deleteAll of slot s while it is in the loop of forEach
DeleteAllSteps(s) ==
  /\ ops[s].name = "deleteAll"
  /\ Scanning(ops[s])
  /\ ops'[s] # ops[s]
  /\ \A t \in Slots \ {s} : ops'[t] = ops[t]
  /\ ~Invoked

\* the index of the entry the loop is at: the one of the visitor in flight, or
\* the next one when the visitor has returned
Visited(op) ==
  IF ScanAt(op) = Len(op.stack) /\ Scan(op).pc = "next"
  THEN Scan(op).i + 1
  ELSE Scan(op).i

\* the step removes the file or the cache entry of k
Removes(k) ==
  \/ files[k] # NoFile /\ files'[k] = NoFile
  \/ MapHas(cache, k) /\ ~MapHas(cache', k)

(***************************************************************************)
(* C33.  deleteAll has no rollback: it removes only the entry its loop is  *)
(* at, one entry after the other; when the deletion of one entry fails,    *)
(* deleteAll is rejected with that error and ends there, so that the       *)
(* entries after the failing one are not deleted, and the failure restores *)
(* nothing of what was deleted before it.                                  *)
(***************************************************************************)
C33_NoRollback ==
  [][\A s \in Slots :
       /\ DeleteAllSteps(s)
            => LET scan == Scan(ops[s]) IN
               \A k \in Keys :
                 Removes(k) => /\ Visited(ops[s]) <= Len(scan.ents)
                               /\ k = scan.ents[Visited(ops[s])].key
       /\ DeleteAllFails(s)
            => /\ Failed(ops[s])
               /\ Top(ops[s]).fn = "delete"
               /\ Top(ops[s]).key = Scan(ops[s]).ents[Scan(ops[s]).i].key
               /\ last'.name = "deleteAll"
               /\ last'.err = ops[s].io.err
               /\ files' = files
               /\ cache' = cache]_vars

\* deleteAll was rejected after it deleted the first entry; the second entry
\* is still on the disk
C33_Witness ==
  /\ last.name = "deleteAll"
  /\ last.err # ""
  /\ \E k \in Keys : files[k] # NoFile
  /\ \E k \in Keys : files[k] = NoFile

(***************************************************************************)
(* C34.  A failed write does not block a key: when the last call that      *)
(* settled is a set(k, .) that was rejected by write (the value could not  *)
(* be serialized, or the write to the disk failed), a set(k, v) with a     *)
(* serializable v that then runs with no other operation in flight on the  *)
(* ready persistent store resolves, the file of k holds the serialization  *)
(* of v, and k has no pending write left.                                  *)
(***************************************************************************)
C34_FailedWriteUnblocks ==
  [][\A s \in Slots, k \in Keys :
       (/\ Persistent
        /\ ops[s].name = "set"
        /\ ops[s].key = k
        /\ ops[s].alone
        /\ Serializable(ops[s].val)
        /\ last.name = "set"
        /\ last.key = k
        /\ last.err # ""
        /\ last.errOp = "write"
        /\ ops'[s].name = "idle"
        /\ ~Invoked)
         => /\ last'.err = ""
            /\ files'[k] = stringify(ops[s].val)
            /\ waiting'[k] = Undefined]_vars

\* set(k, .) and then delete(k) were invoked with the set still in flight, no
\* set was invoked after the delete, and the later of the two to settle is
\* the operation of slot s, with nothing else running
DeleteAfterSet(s, k) ==
  /\ Persistent
  /\ prev = NoPrev
  /\ ops[s].key = k
  /\ last.key = k
  /\ ~ops[s].alone
  /\ ~last.alone
  /\ last.err = ""
  /\ {ops[s].name, last.name} = {"set", "delete"}
  /\ \A t \in Slots \ {s} : ~Active(t)

(***************************************************************************)
(* C35.  Delete after an unawaited set: in a persistent store, when        *)
(* set(k, v) is invoked and delete(k) is invoked while the set is in       *)
(* flight, and no set is invoked after it, then once both have settled     *)
(* there is no file of k and no cache entry of k.                          *)
(***************************************************************************)
C35_DeleteAfterSet ==
  [][\A s \in Slots, k \in Keys :
       (/\ DeleteAfterSet(s, k)
        /\ ops'[s].name = "idle"
        /\ ~Invoked)
         => /\ files'[k] = NoFile
            /\ ~MapHas(cache', k)]_vars

(***************************************************************************)
(* C36.  Destroy leaves nothing behind: when a destroy resolves, whatever  *)
(* ran beside it, the cache is empty and no key has a pending write; and    *)
(* when the store is opened again after a destroy that resolved, count()    *)
(* is 0 and get(k) is null for every key k.                                 *)
(***************************************************************************)
C36_DestroyLeavesNothing ==
  [][/\ (/\ Returned
         /\ last'.name = "destroy"
         /\ last'.err = "")
          => /\ cache' = <<>>
             /\ \A k \in Keys : waiting'[k] = Undefined
     /\ (/\ Returned
         /\ gate = "destroyed"
         /\ last'.name = "open"
         /\ last'.err = ""
         /\ AllIdle')
          => /\ CountNow' = 0
             /\ \A k \in Keys : GetNow(k)' = Null]_vars

(***************************************************************************)
(* C37.  has and get agree: in every ready state with no operation in      *)
(* flight, with or without the cache, has(k) is true exactly when get(k)   *)
(* returns a value that is not null.                                       *)
(***************************************************************************)
C37_HasGetAgree ==
  (ready /\ AllIdle) => \A k \in Keys : HasNow(k) <=> GetNow(k) # Null

\* the delete(k) of slot s is the later to settle of two delete(k) that
\* overlapped, and nothing else runs
SecondDelete(s, k) ==
  /\ Persistent
  /\ ops[s].name = "delete"
  /\ ops[s].key = k
  /\ ~ops[s].alone
  /\ last.name = "delete"
  /\ last.key = k
  /\ ~last.alone
  /\ \A t \in Slots \ {s} : ~Active(t)

(***************************************************************************)
(* C38.  Two delete(k) that overlap on a key of a persistent store both    *)
(* resolve without an error, and when both have settled k is absent: no    *)
(* file of k and, with the cache in use, no cache entry of k.              *)
(***************************************************************************)
C38_ConcurrentDelete ==
  [][\A s \in Slots, k \in Keys :
       (/\ SecondDelete(s, k)
        /\ ops'[s].name = "idle"
        /\ ~Invoked)
         => /\ last.err = ""
            /\ last'.err = ""
            /\ files'[k] = NoFile
            /\ ~MapHas(cache', k)]_vars

(***************************************************************************)
(* Scenario of the reads: a store in any mode, sets that fill it, and      *)
(* every method that only reads, with a visitor that does not touch the    *)
(* store.                                                                  *)
(***************************************************************************)
ReadCalls == 3

ReadValues == {Num(1), Arr(<<1>>)}

\* the methods that only read
ReadOnly ==
  {"get", "has", "count", "random", "includes", "fetchAll", "fetchKeys",
   "fetchValues", "some", "every", "find", "filter", "filterArray", "map"}

InitRead == Construct(Options, InitDisks)

ReadOpen == Call(ReadCalls, "open", NoKey, Undefined, 0)
ReadSet == \E k \in Keys, v \in ReadValues : Call(ReadCalls, "set", k, v, 0)
ReadKey == \E fn \in {"get", "has"}, k \in Keys : Call(ReadCalls, fn, k, Undefined, 0)
ReadIncludes == \E k \in Keys : Call(ReadCalls, "includes", k, Num(1), 0)
ReadAll ==
  \E fn \in {"count", "fetchAll", "fetchKeys", "fetchValues"} :
    Call(ReadCalls, fn, NoKey, Undefined, 0)
ReadRandom ==
  \E r \in 0..(Cardinality(Keys) - 1) : Call(ReadCalls, "random", NoKey, Undefined, r)
ReadVisit ==
  \E fn \in {"some", "every", "find", "filter", "filterArray", "map"}, p \in Preds :
    Call(ReadCalls, fn, NoKey, p, 0)

NextRead ==
  \/ ReadOpen
  \/ ReadSet
  \/ ReadKey
  \/ ReadIncludes
  \/ ReadAll
  \/ ReadRandom
  \/ ReadVisit
  \/ \E s \in Slots : Tick(s)
  \/ \E s \in Slots : Resume(s)
  \/ \E s \in Slots : FsMkdirBase(s)
  \/ \E s \in Slots : FsMkdir(s)
  \/ \E s \in Slots : FsReaddir(s)
  \/ \E s \in Slots : FsReadFile(s)
  \/ \E s \in Slots : FsWriteFile(s)

SpecRead == InitRead /\ [][NextRead]_vars

\* the step is the invocation of a method that only reads, or a step of such
\* a call in flight
Reads ==
  \/ Invoked /\ InvokedName \in ReadOnly
  \/ /\ ~Invoked
     /\ \E s \in Slots :
          /\ ops[s].name \in ReadOnly
          /\ ops'[s] # ops[s]
          /\ \A t \in Slots \ {s} : ops'[t] = ops[t]

=============================================================================
